---- MODULE Spec2Model ----
(***************************************************************************)
(* Playback pipeline controller of media-toc-player.                       *)
(*                                                                         *)
(*   SpecOpen   : the opening handshake (PlaybackPipeline::open and the    *)
(*                bus watch registered by register_open_bus_watch).        *)
(*   Spec       : the operations of an opened controller (play, pause,     *)
(*                seek, select_streams) with the operations bus watch.     *)
(*   SpecSelect : select_streams over every id list, on the inventories    *)
(*                an opening can leave.                                    *)
(*   SpecStop   : stop() on an opened controller, after play and pause.    *)
(*   SpecChapters : the chapter navigation index (ChapterTreeManager).     *)
(*                                                                         *)
(* The media engine is the environment: it answers the requests of the     *)
(* controller with notifications that reach the bus watch later, and it    *)
(* posts messages of its own.  Every notification carries, in the field    *)
(* "by", the number of the operation whose request caused it (0 if none);  *)
(* the program never reads that field.                                     *)
(***************************************************************************)
EXTENDS Integers, Sequences, FiniteSets, TLC

VARIABLES
    streams,            \* MediaInfo.streams : Streams
    duration,           \* MediaInfo.duration (ns)
    tags,               \* MediaInfo.tags (names of the merged global tags)
    toc,                \* MediaInfo.toc : Option<Toc>
    missing_plugins,    \* PlaybackPipeline.missing_plugins : HashSet<String>
    streams_selected,   \* local of register_open_bus_watch
    open_st,            \* position of PlaybackPipeline::open
    handler_res,        \* what open() returned ("Pending" while it has not)
    open_watch,         \* the opening bus watch is registered
    open_log,           \* bus messages handled by the opening watch, in order
    bus_watch_src_id,   \* the operations bus watch is registered
    int_msg_rx,         \* internal control channel
    media_msg_rx,       \* caller-facing channel
    bus,                \* notifications the engine owes to the bus, in order
    gst_state,          \* state last requested from (and accepted by) the engine
    op,                 \* the latest operation: its call, position and outcome
    nops,               \* number of operations called so far
    nspont,             \* number of messages the engine posted on its own
    stop_st,            \* position of PlaybackPipeline::stop
    stop_log,           \* what stop() did, and the messages left unwatched
    stop_res,           \* res of stop(): the answer to set_state(Null)
    video_sink,         \* the element "video_sink" is in the pipeline
    nstops,             \* number of calls of stop()
    store,              \* ChapterTree.store: the chapters, in store order
    iter,               \* ChapterTree.iter: the scan cursor
    tree_selected,      \* ChapterTree.selected: the selection cursor
    status,             \* what the last update_ts returned
    picked,             \* what the last pick_next / pick_previous returned
    last_call,          \* the last call made on the ChapterTreeManager
    last_ts,            \* the timestamp of the last update_ts
    last_toc,           \* the table of contents given to the last call
    mono,               \* only non-decreasing update_ts since the last rebuild
    script_pos,         \* how far the calls since the rebuild follow Script
    mc,                 \* the MainController, its glib sources and contexts
    ui_rx,              \* the channel from the context to the listener
    bus_inspector,      \* the bus watch of the context: "init", "done", "removed"
    ui_event_receiver,  \* the channel of UI events of the MainDispatcher
    dispatcher,         \* the task that handles the UI events
    engine_time,        \* a signed time of the engine (ns), to convert
    converted,          \* the Timestamp converted from engine_time
    input,              \* a timestamp text, to parse
    parsed              \* what parse_timestamp made of text

infoVars == <<streams, duration, tags, toc>>
openVars == <<missing_plugins, streams_selected, open_st, handler_res,
              open_watch, open_log>>
stopVars == <<stop_st, stop_log, stop_res, video_sink, nstops>>
opsVars  == <<bus_watch_src_id, int_msg_rx, media_msg_rx, bus, gst_state,
              op, nops, nspont, stopVars>>
chapterVars == <<store, iter, tree_selected, status, picked, last_call,
                 last_ts, last_toc, mono, script_pos>>
sessionVars == <<mc, ui_rx, bus_inspector>>
dispatchVars == <<ui_event_receiver, dispatcher>>
tsVars   == <<engine_time, converted, input, parsed>>
uiVars   == <<sessionVars, dispatchVars, tsVars>>
vars     == <<infoVars, openVars, opsVars, chapterVars, uiVars>>

----------------------------------------------------------------------------
(* Bounds *)

MaxOps == 3
MaxSpont == 2
MaxIds == 2
MaxTs == 2
MaxOpenMsgs == 5
MaxStops == 2
MaxSelects == 2

None == "None"

----------------------------------------------------------------------------
(* Stream inventory: metadata/media_info.rs *)

Stream(id, type_) == [id |-> id, type_ |-> type_]

a1 == Stream("a1", "AUDIO")
a2 == Stream("a2", "AUDIO")
v1 == Stream("v1", "VIDEO")
t1 == Stream("t1", "TEXT")

\* Ids a caller may pass to select_streams; "x1" names no stream.
StreamIds == {"a1", "a2", "v1", "t1", "x1"}

StreamsDefault ==
    [audio |-> {}, video |-> {}, text |-> {},
     cur_audio_id |-> None, audio_changed |-> FALSE,
     cur_video_id |-> None, video_changed |-> FALSE,
     cur_text_id  |-> None, text_changed  |-> FALSE]

get_or_insert_replacing(opt, v) == v

\* Option::get_or_insert
get_or_insert(opt, v) == IF opt = None THEN v ELSE opt

add_stream_first_only(s, stream) ==
    CASE stream.type_ = "AUDIO" ->
            [s EXCEPT !.cur_audio_id = get_or_insert(@, stream.id),
                      !.audio = IF @ = {} THEN {stream.id} ELSE @]
      [] stream.type_ = "VIDEO" ->
            [s EXCEPT !.cur_video_id = get_or_insert(@, stream.id),
                      !.video = IF @ = {} THEN {stream.id} ELSE @]
      [] stream.type_ = "TEXT" ->
            [s EXCEPT !.cur_text_id = get_or_insert(@, stream.id),
                      !.text = IF @ = {} THEN {stream.id} ELSE @]

\* Streams::add_stream. The engine reports audio, video and text streams.
add_stream(s, stream) ==
    CASE stream.type_ = "AUDIO" ->
            [s EXCEPT !.cur_audio_id = get_or_insert(@, stream.id),
                      !.audio = @ \cup {stream.id}]
      [] stream.type_ = "VIDEO" ->
            [s EXCEPT !.cur_video_id = get_or_insert(@, stream.id),
                      !.video = @ \cup {stream.id}]
      [] stream.type_ = "TEXT" ->
            [s EXCEPT !.cur_text_id = get_or_insert(@, stream.id),
                      !.text = @ \cup {stream.id}]

\* stream_collection.iter().for_each(|stream| this.info.add_stream(&stream))
RECURSIVE add_streams(_, _)
add_streams(s, coll) ==
    IF coll = <<>> THEN s
    ELSE add_streams(add_stream(s, Head(coll)), Tail(coll))

\* Streams::selected_audio / selected_video / selected_text
selected(cur, coll) == IF cur # None /\ cur \in coll THEN cur ELSE None

\* .map_or(true, |prev_stream| *id != prev_stream.id)
changed_from(prev, id) == IF prev = None THEN TRUE ELSE id # prev

NoKind == [audio |-> FALSE, text |-> FALSE, video |-> FALSE]

\* The for loop of Streams::select_streams: err is the first unknown id.
RECURSIVE select_loop(_, _, _)
select_loop(s, ids, is_selected) ==
    IF ids = <<>> THEN [streams |-> s, is_selected |-> is_selected, err |-> None]
    ELSE LET id == Head(ids) IN
         IF id \in s.audio THEN
            select_loop([s EXCEPT !.audio_changed =
                                      changed_from(selected(s.cur_audio_id, s.audio), id),
                                  !.cur_audio_id = id],
                        Tail(ids), [is_selected EXCEPT !.audio = TRUE])
         ELSE IF id \in s.text THEN
            select_loop([s EXCEPT !.text_changed =
                                      changed_from(selected(s.cur_text_id, s.text), id),
                                  !.cur_text_id = id],
                        Tail(ids), [is_selected EXCEPT !.text = TRUE])
         ELSE IF id \in s.video THEN
            select_loop([s EXCEPT !.video_changed =
                                      changed_from(selected(s.cur_video_id, s.video), id),
                                  !.cur_video_id = id],
                        Tail(ids), [is_selected EXCEPT !.video = TRUE])
         ELSE [streams |-> s, is_selected |-> is_selected, err |-> id]

take_changed_always(cur) == TRUE

\* self.cur_audio_id.take().map_or(false, |_| true)
take_changed(cur) == cur # None

\* Streams::select_streams: the inventory it leaves and Err(SelectStreamError(id)).
Streams_select_streams(s, ids) ==
    LET r  == select_loop(s, ids, NoKind)
        sa == IF r.is_selected.audio THEN r.streams
              ELSE [r.streams EXCEPT
                      !.audio_changed = take_changed(r.streams.cur_audio_id),
                      !.cur_audio_id = None]
        st == IF r.is_selected.text THEN sa
              ELSE [sa EXCEPT !.text_changed = take_changed(sa.cur_text_id),
                              !.cur_text_id = None]
        sv == IF r.is_selected.video THEN st
              ELSE [st EXCEPT !.video_changed = take_changed(st.cur_video_id),
                              !.cur_video_id = None]
    IN  IF r.err # None THEN [streams |-> r.streams, err |-> r.err]
        ELSE [streams |-> sv, err |-> None]

----------------------------------------------------------------------------
(* Bus messages *)

Msg(kind, src, new, by) == [kind |-> kind, src |-> src, new |-> new, by |-> by]

\* Messages the engine posts on its own while the controller is opened.
SpontMsgs ==
    { Msg("Error", "decodebin", None, 0),
      Msg("Eos", "playback_pipeline", None, 0),
      Msg("StateChanged", "decodebin", "Paused", 0) }

HasError(ch) == \E i \in 1..Len(ch) : ch[i].kind = "Error"

----------------------------------------------------------------------------
(* Operations: media/playback_pipeline.rs *)

purge_int_msg_ignoring_errors(ch) == [ok |-> TRUE, rest |-> <<>>]

purge_int_msg_failing_on_any(ch) ==
    IF ch = <<>> THEN [ok |-> TRUE, rest |-> <<>>]
    ELSE [ok |-> FALSE, rest |-> Tail(ch)]

\* PlaybackPipeline::purge_int_msg: drains the channel up to the first Error.
RECURSIVE purge_int_msg(_)
purge_int_msg(ch) ==
    IF ch = <<>> THEN [ok |-> TRUE, rest |-> <<>>]
    ELSE IF Head(ch).kind = "Error" THEN [ok |-> FALSE, rest |-> Tail(ch)]
    ELSE purge_int_msg(Tail(ch))

\* impl From<PurgeError> for StateChangeError / SeekError / SelectStreamsError
FromPurgeError(kind) ==
    CASE kind \in {"play", "pause"} -> "StateChangeError"
      [] kind = "seek"              -> "Unrecoverable"
      [] kind = "select_streams"    -> "Unrecoverable"

NoOp ==
    [kind |-> None, id |-> 0, st |-> "returned", res |-> None, id_err |-> None,
     target |-> 0, issued |-> FALSE, awaited |-> 0, by |-> 0, new |-> None,
     purged |-> 0, ids |-> <<>>]

\* The record of a call; "purged" counts the messages its purge drained.
Call(kind, id) ==
    [NoOp EXCEPT !.kind = kind, !.id = id,
                 !.purged = Len(int_msg_rx) - Len(purge_int_msg(int_msg_rx).rest)]

Idle == op.st = "returned" /\ bus_watch_src_id /\ nops < MaxOps

\* The engine's answer to pipeline.set_state(target): the top-level graph
\* reports the change, and a change to Paused may complete asynchronously.
set_state_msgs(target, id, async) ==
    IF gst_state = target THEN <<>>
    ELSE <<Msg("StateChanged", "playback_pipeline", target, id)>>
         \o (IF target = "Paused" /\ async
             THEN <<Msg("AsyncDone", "playback_pipeline", None, id)>>
             ELSE <<>>)

Pause(accept, async) ==
    LET purged == purge_int_msg(int_msg_rx)
        id == nops + 1
    IN  /\ Idle
        /\ nops' = id
        /\ int_msg_rx' = purged.rest
        /\ IF ~purged.ok THEN
              /\ op' = [Call("pause", id) EXCEPT !.res = FromPurgeError("pause")]
              /\ UNCHANGED <<bus, gst_state>>
           ELSE IF ~accept THEN
              \* self.pipeline.set_state(gst::State::Paused)?
              /\ op' = [Call("pause", id) EXCEPT !.res = "StateChangeError",
                                                 !.issued = TRUE]
              /\ UNCHANGED <<bus, gst_state>>
           ELSE
              /\ op' = [Call("pause", id) EXCEPT !.st = "waiting", !.issued = TRUE]
              /\ bus' = bus \o set_state_msgs("Paused", id, async)
              /\ gst_state' = "Paused"
        /\ UNCHANGED <<infoVars, openVars, chapterVars, uiVars, stopVars,
                       bus_watch_src_id, media_msg_rx, nspont>>

Play(accept) ==
    LET purged == purge_int_msg(int_msg_rx)
        id == nops + 1
    IN  /\ Idle
        /\ nops' = id
        /\ int_msg_rx' = purged.rest
        /\ IF ~purged.ok THEN
              /\ op' = [Call("play", id) EXCEPT !.res = FromPurgeError("play")]
              /\ UNCHANGED <<bus, gst_state>>
           ELSE IF ~accept THEN
              \* self.pipeline.set_state(gst::State::Playing)?
              /\ op' = [Call("play", id) EXCEPT !.res = "StateChangeError",
                                                !.issued = TRUE]
              /\ UNCHANGED <<bus, gst_state>>
           ELSE
              /\ op' = [Call("play", id) EXCEPT !.st = "waiting", !.issued = TRUE]
              /\ bus' = bus \o set_state_msgs("Playing", id, FALSE)
              /\ gst_state' = "Playing"
        /\ UNCHANGED <<infoVars, openVars, chapterVars, uiVars, stopVars,
                       bus_watch_src_id, media_msg_rx, nspont>>

PastEnd_strictly(target, d) == target > d

\* if target >= self.info.duration { return Err(SeekError::Eos) }
PastEnd(target, d) == target >= d

\* The engine's answer to a flushing seek: AsyncDone, or Eos past the end.
seek_msgs(target, id) ==
    IF target >= duration
    THEN <<Msg("Eos", "playback_pipeline", None, id)>>
    ELSE <<Msg("AsyncDone", "playback_pipeline", None, id)>>

SeekFlags == {"ACCURATE", "KEY_UNIT"}

Seek(target, flags, accept) ==
    LET purged == purge_int_msg(int_msg_rx)
        id == nops + 1
        call == [Call("seek", id) EXCEPT !.target = target]
    IN  /\ Idle
        /\ nops' = id
        /\ int_msg_rx' = purged.rest
        /\ IF ~purged.ok THEN
              /\ op' = [call EXCEPT !.res = FromPurgeError("seek")]
              /\ UNCHANGED bus
           ELSE IF ~accept THEN
              \* seek_simple(..).unwrap() on a refused seek
              /\ op' = [call EXCEPT !.st = "panicked", !.issued = TRUE]
              /\ UNCHANGED bus
           ELSE
              /\ bus' = bus \o seek_msgs(target, id)
              /\ op' = IF PastEnd(target, duration)
                       THEN [call EXCEPT !.res = "Eos", !.issued = TRUE]
                       ELSE [call EXCEPT !.st = "waiting", !.issued = TRUE]
        /\ UNCHANGED <<infoVars, openVars, chapterVars, uiVars, stopVars,
                       bus_watch_src_id, media_msg_rx, gst_state, nspont>>

SelectStreams(ids) ==
    LET purged == purge_int_msg(int_msg_rx)
        id == nops + 1
        call == [Call("select_streams", id) EXCEPT !.ids = ids]
        sel == Streams_select_streams(streams, ids)
    IN  /\ Idle
        /\ nops' = id
        /\ int_msg_rx' = purged.rest
        /\ IF ~purged.ok THEN
              /\ op' = [call EXCEPT !.res = FromPurgeError("select_streams")]
              /\ UNCHANGED <<bus, streams>>
           ELSE
              \* self.pipeline.send_event(select_streams_evt)
              /\ bus' = Append(bus, Msg("StreamsSelected", "decodebin", None, id))
              /\ streams' = sel.streams
              /\ op' = IF sel.err # None
                       THEN [call EXCEPT !.res = "UnknownId", !.id_err = sel.err,
                                         !.issued = TRUE]
                       ELSE [call EXCEPT !.res = "Ok", !.issued = TRUE]
        /\ UNCHANGED <<duration, tags, toc, openVars, chapterVars, uiVars, stopVars,
                       bus_watch_src_id, media_msg_rx, gst_state, nspont>>

\* The message on which the await loop of the operation breaks.
Completes(kind, msg) ==
    CASE kind \in {"play", "pause"} -> msg.kind = "StateChanged"
      [] kind = "seek"              -> msg.kind = "AsyncDone"
      [] OTHER                      -> FALSE

AwaitError(kind) == IF kind = "seek" THEN "Unrecoverable" ELSE "StateChangeError"

\* One turn of `while let Some(msg) = self.int_msg_rx.next().await`.
AwaitIntMsg ==
    /\ op.st = "waiting"
    /\ int_msg_rx # <<>>
    /\ LET msg == Head(int_msg_rx) IN
       /\ int_msg_rx' = Tail(int_msg_rx)
       /\ op' = IF Completes(op.kind, msg)
                THEN [op EXCEPT !.st = "returned", !.res = "Ok",
                                !.awaited = @ + 1, !.by = msg.by, !.new = msg.new]
                ELSE IF msg.kind = "Error"
                THEN [op EXCEPT !.st = "returned", !.res = AwaitError(op.kind),
                                !.awaited = @ + 1]
                ELSE [op EXCEPT !.awaited = @ + 1]
    /\ UNCHANGED <<infoVars, openVars, chapterVars, uiVars, stopVars, bus_watch_src_id,
                   media_msg_rx, bus, gst_state, nops, nspont>>

must_forward_any_source(msg) == msg.kind \in {"StateChanged", "AsyncDone", "Error"}

\* The closure of register_operations_bus_watch.
must_forward(msg) ==
    CASE msg.kind = "StateChanged" -> msg.src = "playback_pipeline"
      [] msg.kind = "AsyncDone"    -> TRUE
      [] msg.kind = "Error"        -> TRUE
      [] OTHER                     -> FALSE

ext_msg(msg) ==
    CASE msg.kind = "Eos"   -> <<"Eos">>
      [] msg.kind = "Error" -> <<"Error">>
      [] OTHER              -> <<>>

OperationsBusWatch(msg) ==
    /\ bus_watch_src_id
    /\ op.st # "panicked"
    /\ media_msg_rx' = media_msg_rx \o ext_msg(msg)
    /\ int_msg_rx' = IF must_forward(msg) THEN Append(int_msg_rx, msg)
                     ELSE int_msg_rx

\* A notification caused by a request reaches the bus watch.
EngineNotifies ==
    /\ bus # <<>>
    /\ OperationsBusWatch(Head(bus))
    /\ bus' = Tail(bus)
    /\ UNCHANGED <<infoVars, openVars, chapterVars, uiVars, stopVars, bus_watch_src_id,
                   gst_state, op, nops, nspont>>

\* A message the engine posts on its own reaches the bus watch.
EnginePosts(msg) ==
    /\ nspont < MaxSpont
    /\ nspont' = nspont + 1
    /\ OperationsBusWatch(msg)
    /\ UNCHANGED <<infoVars, openVars, chapterVars, uiVars, stopVars, bus_watch_src_id,
                   bus, gst_state, op, nops>>

\* No stop() was called.
StopNotCalled ==
    /\ stop_st = "idle"
    /\ stop_log = <<>>
    /\ stop_res = None
    /\ nstops = 0

take_keeping(src_id) == src_id

\* What self.bus_watch_src_id.take() leaves in the field.
take(src_id) == FALSE

\* PlaybackPipeline::stop, up to glib::source_remove.
Stop ==
    /\ stop_st \in {"idle", "returned"}
    /\ op.st = "returned"
    /\ handler_res.tag = "Ok"
    /\ nstops < MaxStops
    /\ nstops' = nstops + 1
    /\ stop_st' = "deregistered"
    /\ bus_watch_src_id' = take(bus_watch_src_id)
    /\ stop_log' = IF bus_watch_src_id THEN Append(stop_log, "source_remove")
                   ELSE stop_log
    /\ stop_res' = None
    /\ UNCHANGED <<infoVars, openVars, chapterVars, uiVars, int_msg_rx, media_msg_rx,
                   bus, gst_state, op, nops, nspont, video_sink>>

\* let res = self.pipeline.set_state(gst::State::Null)
StopSetState(accept) ==
    /\ stop_st = "deregistered"
    /\ stop_st' = "null_requested"
    /\ stop_log' = Append(stop_log, "set_state(Null)")
    /\ gst_state' = IF accept THEN "Null" ELSE gst_state
    /\ stop_res' = IF accept THEN "Ok" ELSE "StateChangeError"
    /\ UNCHANGED <<infoVars, openVars, chapterVars, uiVars, bus_watch_src_id,
                   int_msg_rx, media_msg_rx, bus, op, nops, nspont, video_sink,
                   nstops>>

\* self.cleanup(); res?; Ok(())
StopCleanup ==
    /\ stop_st = "null_requested"
    /\ stop_st' = "returned"
    /\ video_sink' = FALSE
    /\ stop_log' = IF video_sink THEN Append(stop_log, "remove(video_sink)")
                   ELSE stop_log
    /\ UNCHANGED <<infoVars, openVars, chapterVars, uiVars, bus_watch_src_id,
                   int_msg_rx, media_msg_rx, bus, gst_state, op, nops, nspont,
                   stop_res, nstops>>

\* A message reaches the bus while no watch is registered on it: no closure
\* runs and the message stays on the bus.
BusUnwatched(msg) ==
    /\ ~bus_watch_src_id
    /\ nspont < MaxSpont
    /\ nspont' = nspont + 1
    /\ stop_log' = Append(stop_log, "message")
    /\ UNCHANGED <<infoVars, openVars, chapterVars, uiVars, bus_watch_src_id,
                   int_msg_rx, media_msg_rx, bus, gst_state, op, nops,
                   stop_st, stop_res, video_sink, nstops>>

----------------------------------------------------------------------------
(* Chapter navigation index: ui/chapter_tree_manager.rs *)

MaxBound == 3
MaxChapters == 3

\* Option<gtk::TreeIter>::None; a cursor is otherwise a row number of the store.
NoIter == 0

\* ChapterTimestamps::new_from_u64
ChapterTimestamps(start, end) == [start |-> start, end |-> end]

\* Timestamps at which a chapter may start or end.
ChapterBounds == { 10 * i : i \in 0..MaxBound }

\* Timestamps fed to update_ts.
TsValues == ChapterBounds \cup { 10 * i + 5 : i \in 0..MaxBound } \cup {9, 19}

Chapters ==
    { ChapterTimestamps(b[1], b[2]) :
        b \in { x \in ChapterBounds \X ChapterBounds : x[1] < x[2] } }

\* Chapter lists in store order with end(i) <= start(i+1).
Stores ==
    { chs \in UNION { [1..n -> Chapters] : n \in 0..MaxChapters } :
        \A i \in 1..(Len(chs) - 1) : chs[i].end <= chs[i + 1].start }

\* An entry of a gst::Toc; get_start_stop_times() is None when ~timed.
TocEntry(timed, ts) == [timed |-> timed, ts |-> ts]

Untimed == TocEntry(FALSE, ChapterTimestamps(0, 0))

TocOf(chs) == [i \in 1..Len(chs) |-> TocEntry(TRUE, chs[i])]

\* The Option<gst::Toc> values given to replace_with.
NoToc == [present |-> FALSE, entries |-> <<>>]

Tocs ==
    { NoToc }
    \cup { [present |-> TRUE, entries |-> TocOf(chs)] : chs \in Stores }
    \cup { [present |-> TRUE, entries |-> <<Untimed>> \o TocOf(chs)] :
             chs \in { st \in Stores : Len(st) <= 1 } }

\* ChapterTree::new
ChapterTreeNew ==
    /\ store = <<>>
    /\ iter = NoIter
    /\ tree_selected = NoIter
    /\ status = None
    /\ picked = NoIter
    /\ last_call = None
    /\ last_ts = 0
    /\ last_toc = NoToc
    /\ mono = TRUE
    /\ script_pos = 0

\* store.get_iter_first()
get_iter_first(st) == IF st = <<>> THEN NoIter ELSE 1

\* store.iter_next(&iter): NoIter when there is no next row.
iter_next(st, it) == IF it < Len(st) THEN it + 1 ELSE NoIter

iter_previous_none(st, it) == NoIter

\* store.iter_previous(&iter): NoIter when there is no previous row.
iter_previous(st, it) == IF it > 1 THEN it - 1 ELSE NoIter

Contains_end_inclusive(chapter, ts) == ts >= chapter.start /\ ts <= chapter.end

\* ts >= sel_ts.start && ts < sel_ts.end
Contains(chapter, ts) == ts >= chapter.start /\ ts < chapter.end

rewind_selected_always(st) == get_iter_first(st)

\* ChapterTree::rewind: the selection cursor it leaves.
rewind_selected(st) ==
    IF get_iter_first(st) # NoIter /\ st[1].start = 0 THEN get_iter_first(st)
    ELSE NoIter

PositionStatus(changed, it, sel) ==
    [status |-> IF changed THEN "ChapterChanged" ELSE "ChapterNotChanged",
     iter |-> it, selected |-> sel]

\* The loop of ChapterTree::select_by_ts, entered with a scan cursor.
RECURSIVE search(_, _, _, _, _)
search(st, it, ts, searching_forward, had_prev) ==
    IF Contains(st[it], ts) THEN PositionStatus(TRUE, it, it)
    ELSE IF ts >= st[it].end /\ searching_forward THEN
        IF iter_next(st, it) = NoIter
        THEN PositionStatus(had_prev, it, NoIter)
        ELSE search(st, iter_next(st, it), ts, searching_forward, had_prev)
    ELSE IF ts < st[it].start THEN
        IF iter_previous(st, it) = NoIter
        THEN PositionStatus(TRUE, get_iter_first(st), NoIter)
        ELSE search(st, iter_previous(st, it), ts, FALSE, had_prev)
    ELSE PositionStatus(had_prev, it, NoIter)

\* scan_moves, moving forward again after it moved backward.
RECURSIVE scan_moves_forward_again(_, _, _, _, _)
scan_moves_forward_again(st, it, ts, searching_forward, moves) ==
    IF Len(moves) > 2 * Len(st) THEN moves
    ELSE IF Contains(st[it], ts) THEN moves
    ELSE IF ts >= st[it].end THEN
        IF iter_next(st, it) = NoIter THEN moves
        ELSE scan_moves_forward_again(st, iter_next(st, it), ts, TRUE,
                        Append(moves, <<"next", iter_next(st, it)>>))
    ELSE IF ts < st[it].start THEN
        IF iter_previous(st, it) = NoIter THEN moves
        ELSE scan_moves_forward_again(st, iter_previous(st, it), ts, FALSE,
                        Append(moves, <<"previous", iter_previous(st, it)>>))
    ELSE moves

\* The moves of the scan cursor in the loop of ChapterTree::select_by_ts:
\* each next() and previous() that found a row, with the row.  The loop is
\* followed for at most 2 * Len(st) + 1 moves.
RECURSIVE scan_moves(_, _, _, _, _)
scan_moves(st, it, ts, searching_forward, moves) ==
    IF Len(moves) > 2 * Len(st) THEN moves
    ELSE IF Contains(st[it], ts) THEN moves
    ELSE IF ts >= st[it].end /\ searching_forward THEN
        IF iter_next(st, it) = NoIter THEN moves
        ELSE scan_moves(st, iter_next(st, it), ts, searching_forward,
                        Append(moves, <<"next", iter_next(st, it)>>))
    ELSE IF ts < st[it].start THEN
        IF iter_previous(st, it) = NoIter THEN moves
        ELSE scan_moves(st, iter_previous(st, it), ts, FALSE,
                        Append(moves, <<"previous", iter_previous(st, it)>>))
    ELSE moves

select_by_ts_always_searching(st, it, sel, ts) ==
    IF it # NoIter THEN search(st, it, ts, TRUE, sel # NoIter)
    ELSE PositionStatus(sel # NoIter, it, NoIter)

\* ChapterTree::select_by_ts: the status it returns and the cursors it leaves.
select_by_ts(st, it, sel, ts) ==
    IF sel # NoIter /\ Contains(st[sel], ts) THEN PositionStatus(FALSE, it, sel)
    ELSE IF it # NoIter THEN search(st, it, ts, TRUE, sel # NoIter)
    ELSE PositionStatus(sel # NoIter, it, NoIter)

\* ChapterTree::pick_next
pick_next(st, sel) ==
    IF sel # NoIter THEN iter_next(st, sel) ELSE get_iter_first(st)

pick_previous_first_when_unselected(st, sel) ==
    IF sel # NoIter THEN iter_previous(st, sel) ELSE get_iter_first(st)

\* ChapterTree::pick_previous
pick_previous(st, sel) ==
    IF sel # NoIter THEN iter_previous(st, sel) ELSE Len(st)

\* The timestamps of the scenario: chapters (0,10), (10,20), (20,30).
Script == <<0, 5, 9, 10, 15, 19, 20, 25, 35>>

ScriptChapters ==
    <<ChapterTimestamps(0, 10), ChapterTimestamps(10, 20), ChapterTimestamps(20, 30)>>

\* An entry without start and stop times is skipped.
RECURSIVE add_chapters(_, _)
add_chapters(st, entries) ==
    IF entries = <<>> THEN st
    ELSE add_chapters(IF Head(entries).timed THEN Append(st, Head(entries).ts)
                      ELSE st,
                      Tail(entries))

\* ChapterTreeManager::replace_with
ReplaceWith(new_toc) ==
    LET st == IF new_toc.present THEN add_chapters(<<>>, new_toc.entries)
              ELSE <<>>
        \* toc_visitor.enter_chapters() finds no chapter: return before rewind
        rewinds == ~(new_toc.present /\ new_toc.entries = <<>>)
    IN  /\ store' = st
        /\ iter' = IF rewinds THEN get_iter_first(st) ELSE NoIter
        /\ tree_selected' = IF rewinds THEN rewind_selected(st) ELSE NoIter
        /\ last_call' = "replace_with"
        /\ status' = None
        /\ picked' = NoIter
        /\ last_ts' = 0
        /\ last_toc' = new_toc
        /\ mono' = TRUE
        /\ script_pos' = 0
        /\ UNCHANGED <<infoVars, openVars, opsVars, uiVars>>

\* ChapterTreeManager::clear
Clear ==
    /\ store' = <<>>
    /\ iter' = NoIter
    /\ tree_selected' = NoIter
    /\ last_call' = "clear"
    /\ mono' = FALSE
    /\ script_pos' = Len(Script) + 1
    /\ last_toc' = NoToc
    /\ UNCHANGED <<status, picked, last_ts, infoVars, openVars, opsVars, uiVars>>

\* ChapterTreeManager::unselect
Unselect ==
    /\ tree_selected' = NoIter
    /\ last_call' = "unselect"
    /\ mono' = FALSE
    /\ script_pos' = Len(Script) + 1
    /\ last_toc' = NoToc
    /\ UNCHANGED <<store, iter, status, picked, last_ts, infoVars, openVars,
                   opsVars, uiVars>>

\* ChapterTreeManager::update_ts
UpdateTs(ts) ==
    LET r == select_by_ts(store, iter, tree_selected, ts) IN
    /\ iter' = r.iter
    /\ tree_selected' = r.selected
    /\ status' = r.status
    /\ last_call' = "update_ts"
    /\ last_ts' = ts
    /\ mono' = (mono /\ (status = None \/ ts >= last_ts))
    /\ script_pos' = IF script_pos < Len(Script) /\ ts = Script[script_pos + 1]
                     THEN script_pos + 1
                     ELSE Len(Script) + 1
    /\ last_toc' = NoToc
    /\ UNCHANGED <<store, picked, infoVars, openVars, opsVars, uiVars>>

\* ChapterTreeManager::pick_next
PickNext ==
    /\ picked' = pick_next(store, tree_selected)
    /\ last_call' = "pick_next"
    /\ last_toc' = NoToc
    /\ UNCHANGED <<store, iter, tree_selected, status, last_ts, mono, script_pos,
                   infoVars, openVars, opsVars, uiVars>>

\* ChapterTreeManager::pick_previous
PickPrevious ==
    /\ picked' = pick_previous(store, tree_selected)
    /\ last_call' = "pick_previous"
    /\ last_toc' = NoToc
    /\ UNCHANGED <<store, iter, tree_selected, status, last_ts, mono, script_pos,
                   infoVars, openVars, opsVars, uiVars>>

----------------------------------------------------------------------------
(* The session: MainController (src/ui/main_controller.rs)                 *)
(*                                                                         *)
(* mc holds the fields of the MainController and what its methods act on:  *)
(*   sources  the timeout sources glib has scheduled, each [id, kind];     *)
(*   gst      the state of the pipeline of every PlaybackContext, in the   *)
(*            order PlaybackContext::new built them, or "Absent" (not      *)
(*            built yet) / "Dropped" (freed);                              *)
(*   nopen    the number of calls of open_media;                           *)
(*   issued   the calls made on contexts by the last handler;              *)
(*   handled  the messages the last run of the listener took, each with    *)
(*            the state before and after;                                  *)
(*   halted   an end of stream was handled and register_tracker has not    *)
(*            scheduled a tracker since;                                   *)
(*   was      the state in which the last end of stream was handled;       *)
(*   panicked an unwrap() failed.                                          *)
(* The window is insensitive between switch_to_busy and switch_to_default: *)
(* no user command reaches the controller then.                            *)

MaxOpens == 2
MaxRx == 2

NoCtx == 0
NoSrc == 0
CtxIds == 1..MaxOpens

ControllerState == {"EOS", "Paused", "Playing", "Stopped"}

\* ContextMessage, as matched by the listener.
ContextMessage ==
    {"AsyncDone", "InitDone", "MissingPlugin", "Eos", "StreamsSelected",
     "FailedToOpenMedia"}

\* MainController::new
MainControllerNew ==
    [context |-> NoCtx, missing_plugins |-> {}, state |-> "Stopped",
     seeking |-> FALSE, keep_going |-> TRUE, listener_src |-> NoSrc,
     tracker_src |-> NoSrc, sensitive |-> TRUE, message |-> None,
     sources |-> {}, gst |-> [c \in CtxIds |-> "Absent"],
     nopen |-> 0, issued |-> <<>>, handled |-> <<>>, halted |-> FALSE,
     was |-> None,
     ticked |-> NoSrc, panicked |-> FALSE]

\* What every handler starts from: nothing issued, nothing handled yet.
Entering(m) == [m EXCEPT !.issued = <<>>, !.handled = <<>>, !.ticked = NoSrc]

\* unwrap() on None or on Err
panic(m) == [m EXCEPT !.panicked = TRUE]

SourceIds(m) == { s.id : s \in m.sources }

\* The id glib gives the next source: one no scheduled source has.
NewSrc(m) ==
    CHOOSE i \in 1..(Cardinality(m.sources) + 1) :
        /\ i \notin SourceIds(m)
        /\ \A j \in 1..(i - 1) : j \in SourceIds(m)

\* gtk::timeout_add: schedules a source; its id is NewSrc(m).
timeout_add(m, kind) ==
    [m EXCEPT !.sources = @ \cup {[id |-> NewSrc(m), kind |-> kind]}]

\* glib::source_remove
source_remove(m, id) == [m EXCEPT !.sources = { s \in @ : s.id # id }]

\* MainController::remove_tracker
remove_tracker(m) ==
    IF m.tracker_src # NoSrc
    THEN [source_remove(m, m.tracker_src) EXCEPT !.tracker_src = NoSrc]
    ELSE m

\* MainController::register_tracker
register_tracker(m) ==
    IF m.tracker_src # NoSrc
    THEN m
    ELSE [timeout_add(m, "tracker") EXCEPT !.tracker_src = NewSrc(m),
                                           !.halted = FALSE]

\* MainController::remove_listener
remove_listener(m) ==
    IF m.listener_src # NoSrc
    THEN [source_remove(m, m.listener_src) EXCEPT !.listener_src = NoSrc]
    ELSE m

\* MainController::register_listener
register_listener(m) ==
    IF m.listener_src # NoSrc
    THEN m
    ELSE [timeout_add(m, "listener") EXCEPT !.listener_src = NewSrc(m)]

\* MainController::switch_to_busy and switch_to_default
switch_to_busy(m) == [m EXCEPT !.sensitive = FALSE]
switch_to_default(m) == [m EXCEPT !.sensitive = TRUE]

\* MainController::show_message
show_message(m, type) == [m EXCEPT !.message = type]

\* A call on the context the controller holds: play, pause, stop and seek
\* of the PlaybackContext, recorded with the position asked for (0 when the
\* call has none).  The pipeline takes the state asked for; when
\* the engine refuses (accept = FALSE) play, pause and seek return Err,
\* which the controller unwraps.
context_call(m, c, call, position, accept) ==
    LET m1 == [m EXCEPT !.issued = Append(@, <<c, call, position>>)]
    IN  IF ~accept /\ call # "stop"
        THEN panic(m1)
        ELSE [m1 EXCEPT !.gst[c] = CASE call = "play" -> "Playing"
                                     [] call = "pause" -> "Paused"
                                     [] call = "stop" -> "Null"
                                     [] OTHER -> @]

\* MainController::set_context
set_context(m, c) ==
    switch_to_default([m EXCEPT !.context = c, !.state = "Paused"])

\* seek that leaves the state EOS and registers no tracker.
seek_leaving_eos(m, position, accept) ==
    IF m.state # "Stopped"
    THEN IF m.context = NoCtx
         THEN panic([m EXCEPT !.seeking = TRUE])
         ELSE context_call([m EXCEPT !.seeking = TRUE], m.context, "seek",
                           position, accept)
    ELSE m

\* MainController::seek
seek(m, position, accept) ==
    IF m.state # "Stopped"
    THEN IF m.context = NoCtx
         THEN panic([m EXCEPT !.seeking = TRUE])
         ELSE LET m1 == context_call([m EXCEPT !.seeking = TRUE], m.context,
                                     "seek", position, accept)
              IN  IF m1.panicked THEN m1
                  ELSE IF m1.state = "EOS"
                       THEN [register_tracker(m1) EXCEPT !.state = "Playing"]
                       ELSE m1
    ELSE m

\* MainController::open_media; new_ok is what PlaybackContext::new answers.
\* Storing the new context drops the one the field held.
open_media(m, new_ok) ==
    LET m1 == register_listener(
                  [remove_listener(m) EXCEPT !.state = "Stopped",
                                             !.missing_plugins = {},
                                             !.seeking = FALSE,
                                             !.keep_going = TRUE])
        c == m.nopen + 1
    IN  IF new_ok
        THEN [m1 EXCEPT !.context = c,
                        !.gst = [d \in CtxIds |->
                                   IF d = c THEN "Paused"
                                   ELSE IF d = m.context THEN "Dropped"
                                   ELSE @[d]],
                        !.nopen = c,
                        !.issued = Append(@, <<c, "new", 0>>)]
        ELSE [show_message(switch_to_default(m1), "Error")
                 EXCEPT !.gst[c] = "Dropped", !.nopen = c]

\* MainController::select_media; response is the answer of the file dialog.
select_media(m, response, new_ok, accept) ==
    LET m1 == remove_tracker(switch_to_busy([m EXCEPT !.message = None]))
        m2 == IF m1.context # NoCtx
              THEN context_call(m1, m1.context, "pause", 0, accept)
              ELSE m1
    IN  IF m2.panicked THEN m2
        ELSE IF response = "Ok"
        THEN open_media(IF m2.context # NoCtx
                        THEN context_call(m2, m2.context, "stop", 0, TRUE)
                        ELSE m2,
                        new_ok)
        ELSE switch_to_default(IF m2.context # NoCtx
                               THEN [m2 EXCEPT !.state = "Paused"]
                               ELSE m2)

\* MainController::play_pause
play_pause(m, response, new_ok, accept) ==
    IF m.context = NoCtx
    THEN select_media(m, response, new_ok, accept)
    ELSE IF m.state # "EOS"
    THEN CASE m.gst[m.context] = "Paused" ->
                context_call([register_tracker(m) EXCEPT !.state = "Playing"],
                             m.context, "play", 0, accept)
           [] m.gst[m.context] = "Playing" ->
                LET m1 == context_call(m, m.context, "pause", 0, accept)
                IN  IF m1.panicked THEN m1
                    ELSE [remove_tracker(m1) EXCEPT !.state = "Paused"]
           [] OTHER -> m
    ELSE seek(m, 0, accept)

\* MainController::select_streams
select_streams_on_context(m) ==
    IF m.context = NoCtx
    THEN panic(m)
    ELSE context_call(m, m.context, "select_streams", 0, TRUE)

\* The arm of the listener for one message.
on_message(m, message) ==
    CASE message = "AsyncDone" -> [m EXCEPT !.seeking = FALSE]
      [] message = "InitDone" ->
            IF m.context = NoCtx THEN panic(m)
            ELSE [set_context(register_tracker(m), m.context)
                    EXCEPT !.message = IF m.missing_plugins # {}
                                       THEN "Info" ELSE @,
                           !.state = "Playing"]
      [] message = "MissingPlugin" ->
            [m EXCEPT !.missing_plugins = @ \cup {"plugin"}]
      [] message = "Eos" ->
            IF m.context = NoCtx THEN panic(m)
            ELSE remove_tracker([m EXCEPT !.state = "EOS", !.halted = TRUE,
                                         !.was = m.state])
      [] message = "StreamsSelected" ->
            IF m.context = NoCtx THEN panic(m)
            ELSE set_context(m, m.context)
      [] OTHER -> \* FailedToOpenMedia
            LET m1 == switch_to_default(
                          [m EXCEPT !.context = NoCtx,
                                    !.gst = [d \in CtxIds |->
                                               IF d = m.context THEN "Dropped"
                                               ELSE @[d]],
                                    !.state = "Stopped",
                                    !.keep_going = FALSE])
            IN  show_message(m1, IF m1.missing_plugins # {}
                                 THEN "Info" ELSE "Error")

\* The loop of the listener over the messages waiting in ui_rx: it stops
\* at the message that clears keep_going.
RECURSIVE listen(_, _)
listen(m, rx) ==
    IF rx = <<>> \/ m.panicked
    THEN m
    ELSE LET m1 == on_message(m, Head(rx))
             m2 == [m1 EXCEPT !.handled =
                        Append(@, [message |-> Head(rx), from |-> m.state,
                                   to |-> m1.state,
                                   tracker_src |-> m1.tracker_src])]
         IN  IF Head(rx) = "FailedToOpenMedia" THEN m2
             ELSE listen(m2, Tail(rx))

\* The closure register_listener schedules, run once by glib: it returns
\* Continue(keep_going), and glib destroys a source that returns false.
listener(m, rx) ==
    LET m1 == listen(m, rx)
        failed == \E i \in 1..Len(m1.handled) :
                     m1.handled[i].message = "FailedToOpenMedia"
    IN  IF failed /\ ~m1.panicked
        THEN [source_remove(m1, m.listener_src)
                 EXCEPT !.listener_src = NoSrc, !.tracker_src = NoSrc]
        ELSE m1

\* The closure register_tracker schedules, run once by glib for source id.
tracker(m, id) ==
    LET m1 == [m EXCEPT !.ticked = id]
    IN  IF ~m1.seeking /\ m1.context = NoCtx
        THEN panic(m1)
        ELSE IF m1.keep_going THEN m1 ELSE source_remove(m1, id)

CanPost(m) ==
    /\ ~m.panicked
    /\ m.context # NoCtx
    /\ m.gst[m.context] \in {"Paused", "Playing"}
    /\ m.listener_src # NoSrc

(* Actions of the session *)

\* main.rs: the media given on the command line is opened at start.
OpenAtStart(new_ok) ==
    /\ mc = MainControllerNew
    /\ mc.nopen < MaxOpens
    /\ mc' = open_media(Entering(mc), new_ok)
    /\ ui_rx' = <<>>
    /\ bus_inspector' = "init"
    /\ UNCHANGED <<infoVars, openVars, opsVars, chapterVars, dispatchVars, tsVars>>

Commands == ~mc.panicked /\ mc.sensitive

\* The answers a command does not ask for are left at one value.
Asked(response, new_ok, accept, dialog) ==
    /\ ~dialog => response = "Ok"
    /\ response # "Ok" => new_ok
    /\ mc.context = NoCtx => accept

\* The open button.
SelectMedia(response, new_ok, accept) ==
    /\ Commands
    /\ Asked(response, new_ok, accept, TRUE)
    /\ mc.nopen < MaxOpens
    /\ mc' = select_media(Entering(mc), response, new_ok, accept)
    /\ IF response = "Ok" /\ ~mc'.panicked
       THEN ui_rx' = <<>> /\ bus_inspector' = "init"
       ELSE UNCHANGED <<ui_rx, bus_inspector>>
    /\ UNCHANGED <<infoVars, openVars, opsVars, chapterVars, dispatchVars, tsVars>>

\* The play_pause action.
PlayPause(response, new_ok, accept) ==
    /\ Commands
    /\ Asked(response, new_ok, accept, mc.context = NoCtx)
    /\ mc.context # NoCtx => new_ok
    /\ mc.context = NoCtx => mc.nopen < MaxOpens
    /\ mc' = play_pause(Entering(mc), response, new_ok, accept)
    /\ IF mc.context = NoCtx /\ response = "Ok" /\ ~mc'.panicked
       THEN ui_rx' = <<>> /\ bus_inspector' = "init"
       ELSE UNCHANGED <<ui_rx, bus_inspector>>
    /\ UNCHANGED <<infoVars, openVars, opsVars, chapterVars, dispatchVars, tsVars>>

\* The seeks of the InfoController.
SessionSeek(position, accept) ==
    /\ Commands
    /\ mc.context # NoCtx
    /\ mc' = seek(Entering(mc), position, accept)
    /\ UNCHANGED <<ui_rx, bus_inspector>>
    /\ UNCHANGED <<infoVars, openVars, opsVars, chapterVars, dispatchVars, tsVars>>

\* The stream lists of the StreamsController, shown once a media is open.
SessionSelectStreams ==
    /\ Commands
    /\ mc.context # NoCtx
    /\ bus_inspector # "init"
    /\ mc' = select_streams_on_context(Entering(mc))
    /\ UNCHANGED <<ui_rx, bus_inspector>>
    /\ UNCHANGED <<infoVars, openVars, opsVars, chapterVars, dispatchVars, tsVars>>

\* Context::register_bus_inspector sends a message to the listener: the
\* first AsyncDone of the engine as InitDone, the later ones, which answer
\* the seeks, as AsyncDone; an end of stream as Eos and an error as
\* FailedToOpenMedia, and after either the watch is removed.  MissingPlugin
\* and StreamsSelected are the other variants the listener matches: the
\* first comes while the media opens, the second once it is open.
ContextSends(message) ==
    /\ CanPost(mc)
    /\ Len(ui_rx) < MaxRx
    /\ CASE message = "InitDone" -> bus_inspector = "init"
         [] message = "MissingPlugin" -> bus_inspector = "init"
         [] message = "AsyncDone" -> bus_inspector = "done" /\ mc.seeking
         [] message = "StreamsSelected" -> bus_inspector = "done"
         [] OTHER -> bus_inspector # "removed"
    /\ ui_rx' = Append(ui_rx, message)
    /\ bus_inspector' = CASE message = "InitDone" -> "done"
                          [] message \in {"Eos", "FailedToOpenMedia"} -> "removed"
                          [] OTHER -> bus_inspector
    /\ mc' = mc
    /\ UNCHANGED <<infoVars, openVars, opsVars, chapterVars, dispatchVars, tsVars>>

\* glib runs the listener (every LISTENER_PERIOD).
Listener ==
    /\ ~mc.panicked
    /\ mc.listener_src # NoSrc
    /\ mc' = listener(Entering(mc), ui_rx)
    /\ ui_rx' = <<>>
    /\ UNCHANGED bus_inspector
    /\ UNCHANGED <<infoVars, openVars, opsVars, chapterVars, dispatchVars, tsVars>>

\* glib runs a scheduled tracker (every TRACKER_PERIOD).
Tracker(id) ==
    /\ ~mc.panicked
    /\ [id |-> id, kind |-> "tracker"] \in mc.sources
    /\ mc' = tracker(Entering(mc), id)
    /\ UNCHANGED <<ui_rx, bus_inspector>>
    /\ UNCHANGED <<infoVars, openVars, opsVars, chapterVars, dispatchVars, tsVars>>

SessionNew ==
    /\ mc = MainControllerNew
    /\ ui_rx = <<>>
    /\ bus_inspector = "init"

----------------------------------------------------------------------------
(* The dispatcher of UI events: MainDispatcher (src/ui/main_dispatcher.rs) *)
(* and the stream lists (src/ui/streams_dispatcher.rs).                    *)
(*                                                                         *)
(* Events are numbered in the order UIEventSender sent them.  dispatcher   *)
(* is the task spawned by MainDispatcher::setup and what it acts on:       *)
(*   event       the event handle() is awaiting on, or NoEvent;            *)
(*   borrowed    the RefCell of the MainController is mutably borrowed;    *)
(*   in_progress the pipeline operations that have started and not ended;  *)
(*   overlap     the most operations in progress at once in the last step; *)
(*   taken, done the numbers of the events taken and completed, in order;  *)
(*   spawned     the futures of on_stream_selected waiting to run;         *)
(*   ticked      the ticks of the tracker that ran MainController::tick;   *)
(*   st          "running", "ended" (the loop broke) or "panicked".        *)

MaxEvents == 3
MaxSpawned == 2
MaxTicks == 2

\* UIEvent: the variants that await a pipeline operation of the
\* MainController, one handled without await (Eos), and Quit.
PipelineEvents == {"OpenMedia", "PlayPause", "Seek", "SelectMedia"}
UIEvent == PipelineEvents \cup {"Eos", "Quit"}

NoEvent == [kind |-> None, n |-> 0]

DispatcherNew ==
    /\ ui_event_receiver = <<>>
    /\ dispatcher = [event |-> NoEvent, borrowed |-> FALSE, in_progress |-> {},
                     overlap |-> 0, taken |-> <<>>, done |-> <<>>,
                     spawned |-> 0, nsent |-> 0, ticked |-> 0, st |-> "running"]

\* RefCell::borrow_mut without a check of the borrow flag.
borrow_mut_unchecked(d) == [d EXCEPT !.borrowed = TRUE]

\* RefCell::borrow_mut: panics when the cell is already borrowed.
borrow_mut(d) ==
    IF d.borrowed THEN [d EXCEPT !.st = "panicked"]
    ELSE [d EXCEPT !.borrowed = TRUE]

\* A pipeline operation starts.
begin(d, operation) ==
    LET ops == d.in_progress \cup {operation}
    IN  [d EXCEPT !.in_progress = ops, !.overlap = Cardinality(ops)]

\* A pipeline operation ends, and the borrow made to call it.
end(d, operation) ==
    [d EXCEPT !.in_progress = @ \ {operation}, !.borrowed = FALSE]

\* UIEventSender: an event is sent on the unbounded channel.
SendEvent(kind) ==
    /\ dispatcher.nsent < MaxEvents
    /\ ui_event_receiver' =
          Append(ui_event_receiver, [kind |-> kind, n |-> dispatcher.nsent + 1])
    /\ dispatcher' = [dispatcher EXCEPT !.nsent = @ + 1, !.overlap = 0]
    /\ UNCHANGED <<infoVars, openVars, opsVars, chapterVars, sessionVars, tsVars>>

\* MainDispatcher::handle up to its first await or, without one, to its end.
\* awaits tells whether the operation of the MainController suspends.
handle(d, event, awaits) ==
    LET d0 == [d EXCEPT !.taken = Append(@, event.n), !.overlap = 0]
        d1 == borrow_mut(d0)
    IN  CASE event.kind = "Quit" ->
                IF d1.st = "panicked" THEN d1
                ELSE [d1 EXCEPT !.borrowed = FALSE, !.st = "ended",
                                !.done = Append(@, event.n)]
          [] event.kind = "Eos" ->
                IF d1.st = "panicked" THEN d1
                ELSE [d1 EXCEPT !.borrowed = FALSE, !.done = Append(@, event.n)]
          [] OTHER ->
                IF d1.st = "panicked" THEN d1
                ELSE IF awaits
                THEN [begin(d1, event) EXCEPT !.event = event]
                ELSE [end(begin(d1, event), event)
                         EXCEPT !.done = Append(@, event.n)]

\* The loop of the task: ui_event_receiver.next().await, then
\* handler.handle(event).await.  The next event is taken when handle
\* has returned.
TakeEvent(awaits) ==
    /\ dispatcher.st = "running"
    /\ dispatcher.event = NoEvent
    /\ ui_event_receiver # <<>>
    /\ dispatcher' = handle(dispatcher, Head(ui_event_receiver), awaits)
    /\ ui_event_receiver' = Tail(ui_event_receiver)
    /\ UNCHANGED <<infoVars, openVars, opsVars, chapterVars, sessionVars, tsVars>>

\* The operation handle() awaits completes: handle returns.
OperationCompletes ==
    /\ dispatcher.st = "running"
    /\ dispatcher.event # NoEvent
    /\ dispatcher' = [end(dispatcher, dispatcher.event)
                         EXCEPT !.event = NoEvent,
                                !.done = Append(@, dispatcher.event.n),
                                !.overlap = 0]
    /\ UNCHANGED ui_event_receiver
    /\ UNCHANGED <<infoVars, openVars, opsVars, chapterVars, sessionVars, tsVars>>

\* on_stream_selected: the cursor of a stream list changed.  The callback
\* borrows the MainController, reads the selection and spawns the future
\* that will call select_streams.
StreamSelected ==
    /\ dispatcher.st = "running"
    /\ dispatcher.spawned < MaxSpawned
    /\ LET d1 == borrow_mut([dispatcher EXCEPT !.overlap = 0])
       IN  dispatcher' = IF d1.st = "panicked" THEN d1
                         ELSE [d1 EXCEPT !.borrowed = dispatcher.borrowed,
                                         !.spawned = @ + 1]
    /\ UNCHANGED ui_event_receiver
    /\ UNCHANGED <<infoVars, openVars, opsVars, chapterVars, sessionVars, tsVars>>

\* The future spawned by on_stream_selected runs: it borrows the
\* MainController and calls select_streams, which does not await.
SelectStreamsTask ==
    /\ dispatcher.st = "running"
    /\ dispatcher.spawned > 0
    /\ LET d0 == [dispatcher EXCEPT !.spawned = @ - 1, !.overlap = 0]
           d1 == borrow_mut(d0)
           operation == [kind |-> "select_streams", n |-> 0]
       IN  dispatcher' =
              IF d1.st = "panicked" THEN d1
              ELSE [end(begin(d1, operation), operation)
                       EXCEPT !.borrowed = d0.borrowed]
    /\ UNCHANGED ui_event_receiver
    /\ UNCHANGED <<infoVars, openVars, opsVars, chapterVars, sessionVars, tsVars>>

\* The future of new_tracker, once per TRACKER_PERIOD: tick() runs if
\* try_borrow_mut gives the MainController, and the turn is skipped if not.
TrackerTick ==
    /\ dispatcher.st = "running"
    /\ dispatcher.ticked < MaxTicks
    /\ dispatcher' = IF dispatcher.borrowed
                     THEN [dispatcher EXCEPT !.overlap = 0]
                     ELSE [dispatcher EXCEPT !.ticked = @ + 1, !.overlap = 0]
    /\ UNCHANGED ui_event_receiver
    /\ UNCHANGED <<infoVars, openVars, opsVars, chapterVars, sessionVars, tsVars>>

\* The callbacks InfoDispatcher::setup connects that borrow the
\* MainController mutably.
InfoCallbacks ==
    {"draw_thumbnail", "row_activated", "previous_chapter", "step_forward",
     "step_back"}

\* Whether the callback ends with ui_event.seek; found tells whether it got
\* a chapter or a position to seek to.
sends_seek(callback, found) ==
    CASE callback = "draw_thumbnail" -> FALSE
      [] callback = "previous_chapter" -> TRUE
      [] OTHER -> found

\* A callback of the info page, run by the main loop: it borrows the
\* MainController with borrow_mut, drops the borrow, then sends its seek.
InfoCallback(callback, found) ==
    /\ dispatcher.st = "running"
    /\ dispatcher.nsent < MaxEvents
    /\ LET d1 == borrow_mut([dispatcher EXCEPT !.overlap = 0])
           seeks == d1.st # "panicked" /\ sends_seek(callback, found)
       IN  /\ dispatcher' =
                 IF d1.st = "panicked" THEN d1
                 ELSE [d1 EXCEPT !.borrowed = dispatcher.borrowed,
                                 !.nsent = IF seeks THEN @ + 1 ELSE @]
           /\ ui_event_receiver' =
                 IF seeks
                 THEN Append(ui_event_receiver,
                             [kind |-> "Seek", n |-> dispatcher.nsent + 1])
                 ELSE ui_event_receiver
    /\ UNCHANGED <<infoVars, openVars, opsVars, chapterVars, sessionVars, tsVars>>

----------------------------------------------------------------------------
(* Timestamps *)

\* A 64-bit quantity is kept as four limbs in base 10^6, most significant
\* first (the model checker's integers have 32 bits).
Base == 1000000

Zero == <<0, 0, 0, 0>>

\* x / d and x % d for a small divisor d (integer division of u64).
DivMod(x, d) ==
    LET n1 == x[1]
        n2 == (n1 % d) * Base + x[2]
        n3 == (n2 % d) * Base + x[3]
        n4 == (n3 % d) * Base + x[4]
    IN  [q |-> <<n1 \div d, n2 \div d, n3 \div d, n4 \div d>>, r |-> n4 % d]

\* x * k + a for small k and a.
MulAdd(x, k, a) ==
    LET p4 == x[4] * k + a
        p3 == x[3] * k + (p4 \div Base)
        p2 == x[2] * k + (p3 \div Base)
        p1 == x[1] * k + (p2 \div Base)
    IN  <<p1, p2 % Base, p3 % Base, p4 % Base>>

LessEq(x, y) ==
    \/ x = y
    \/ \E i \in 1..4 : x[i] < y[i] /\ \A j \in 1..(i - 1) : x[j] = y[j]

I64Max == <<9, 223372, 36854, 775807>>
I64MinMagnitude == <<9, 223372, 36854, 775808>>

\* An i64: its sign and its magnitude.
I64(neg, mag) == [neg |-> neg, mag |-> mag]

is_negative(n) == n.neg

\* Timestamp::from_nano: nano_total and h are limbs, the other fields are
\* remainders.
from_nano(nano_total) ==
    LET us_total == DivMod(nano_total, 1000)
        ms_total == DivMod(us_total.q, 1000)
        s_total == DivMod(ms_total.q, 1000)
        m_total == DivMod(s_total.q, 60)
    IN  [nano_total |-> nano_total,
         nano |-> us_total.r,
         us |-> ms_total.r,
         ms |-> s_total.r,
         s |-> m_total.r,
         m |-> DivMod(m_total.q, 60).r,
         h |-> DivMod(m_total.q, 60).q]

\* Timestamp::from_signed_nano without the test of the sign.
from_signed_nano_unclamped(nano) == from_nano(nano.mag)

\* Timestamp::from_signed_nano
from_signed_nano(nano) ==
    IF is_negative(nano)
    THEN [nano_total |-> Zero, nano |-> 0, us |-> 0, ms |-> 0, s |-> 0,
          m |-> 0, h |-> Zero]
    ELSE from_nano(nano.mag)

\* PlaybackPipeline::current_ts for the position the engine answers:
\* <<>> is None, <<ts>> is Some(ts).
current_ts(position) ==
    IF is_negative(position) THEN <<>> ELSE <<from_nano(position.mag)>>

NotConverted == [by |-> None, ts |-> <<>>]

\* The engine times converted: sample limbs around the unit boundaries
\* (one hour is <<0, 3, 600000, 0>> ns) up to the ends of i64.
SampleLimbs ==
    <<{0, 9}, {0, 3, 223372}, {0, 36854, 599999, 600000},
      {0, 1, 775807, 999999}>>

EngineTimes ==
    {I64(TRUE, I64MinMagnitude)} \cup
    { n \in { I64(neg, <<l1, l2, l3, l4>>) :
                neg \in BOOLEAN, l1 \in SampleLimbs[1], l2 \in SampleLimbs[2],
                l3 \in SampleLimbs[3], l4 \in SampleLimbs[4] } :
        /\ LessEq(n.mag, I64Max)
        /\ n.neg => n.mag # Zero }

FromSignedNano ==
    /\ converted = NotConverted
    /\ converted' = [by |-> "from_signed_nano",
                     ts |-> <<from_signed_nano(engine_time)>>]
    /\ UNCHANGED <<engine_time, input, parsed>>
    /\ UNCHANGED <<infoVars, openVars, opsVars, chapterVars, sessionVars,
                   dispatchVars>>

CurrentTs ==
    /\ converted = NotConverted
    /\ converted' = [by |-> "current_ts", ts |-> current_ts(engine_time)]
    /\ UNCHANGED <<engine_time, input, parsed>>
    /\ UNCHANGED <<infoVars, openVars, opsVars, chapterVars, sessionVars,
                   dispatchVars>>

\* Characters of a timestamp text; a digit's value is its place in Digits
\* less one.
Digits == <<"0", "1", "2", "3", "4", "5", "6", "7", "8", "9">>

is_digit(c) == \E v \in 1..Len(Digits) : Digits[v] = c

DigitValue(c) == (CHOOSE v \in 1..Len(Digits) : Digits[v] = c) - 1

\* parse_to!(u64) of a run of digits (short enough not to overflow).
RECURSIVE parse_to(_)
parse_to(digits) ==
    IF digits = <<>> THEN 0
    ELSE parse_to(SubSeq(digits, 1, Len(digits) - 1)) * 10
            + DigitValue(digits[Len(digits)])

ParseError(at) == [ok |-> FALSE, nb |-> 0, rest |-> at]

\* take_while1!(digit): the end of the run of digits that starts at i.
RECURSIVE take_while(_, _)
take_while(text, i) ==
    IF i <= Len(text) /\ is_digit(text[i]) THEN take_while(text, i + 1)
    ELSE i

\* parse_digits at position i of the text.
parse_digits(text, i) ==
    LET rest == take_while(text, i)
    IN  IF rest = i THEN ParseError(i)
        ELSE [ok |-> TRUE, nb |-> parse_to(SubSeq(text, i, rest - 1)),
              rest |-> rest]

\* tag!(t) at position i
tag_at(text, i, t) == i <= Len(text) /\ text[i] = t

\* opt!(parser): None, consuming nothing, where the parser fails.
opt(result, i) ==
    IF result.ok THEN [some |-> TRUE, nb |-> result.nb, rest |-> result.rest]
    ELSE [some |-> FALSE, nb |-> 0, rest |-> i]

\* parse_opt_dot_digits at position i.
parse_opt_dot_digits(text, i) ==
    opt(IF tag_at(text, i, ".") THEN parse_digits(text, i + 1)
        ELSE ParseError(i), i)

\* nano_total of the fields h, m, s, ms, us, nano.
nano_total_of(f) ==
    MulAdd(MulAdd(MulAdd(MulAdd(MulAdd(MulAdd(Zero, 1, f.h), 60, f.m),
                                60, f.s), 1000, f.ms), 1000, f.us),
           1000, f.nano)

\* parse_timestamp: <<>> is an error, <<ts>> the Timestamp parsed.
parse_timestamp(text) ==
    LET nb1 == parse_digits(text, 1)
        nb2 == parse_digits(text, nb1.rest + 1)
        after_nb2 == nb2.rest
        nb1_is_hours ==
            IF tag_at(text, after_nb2, ":")
            THEN [some |-> TRUE, v |-> TRUE, rest |-> after_nb2 + 1]
            ELSE IF tag_at(text, after_nb2, ".")
            THEN [some |-> TRUE, v |-> FALSE, rest |-> after_nb2 + 1]
            ELSE [some |-> FALSE, v |-> FALSE, rest |-> after_nb2]
        nb3 == opt(parse_digits(text, nb1_is_hours.rest), nb1_is_hours.rest)
        nb4 == parse_opt_dot_digits(text, nb3.rest)
        nb5 == parse_opt_dot_digits(text, nb4.rest)
        eof == nb5.rest = Len(text) + 1
        fields ==
            IF nb1_is_hours.some /\ nb1_is_hours.v
            THEN [h |-> nb1.nb, m |-> nb2.nb, s |-> nb3.nb, ms |-> nb4.nb,
                  us |-> nb5.nb, nano |-> 0]
            ELSE [h |-> 0, m |-> nb1.nb, s |-> nb2.nb, ms |-> nb3.nb,
                  us |-> nb4.nb, nano |-> nb5.nb]
    IN  IF ~nb1.ok THEN <<>>
        ELSE IF ~tag_at(text, nb1.rest, ":") THEN <<>>
        ELSE IF ~nb2.ok THEN <<>>
        ELSE IF ~eof THEN <<>>
        ELSE << [nano_total |-> nano_total_of(fields), nano |-> fields.nano,
                 us |-> fields.us, ms |-> fields.ms, s |-> fields.s,
                 m |-> fields.m, h |-> fields.h] >>

NotParsed == [done |-> FALSE, ts |-> <<>>]

\* The texts parsed: up to MaxSlots places joined by ":" or ".", each place
\* holding a number, nothing or a letter, and maybe a letter at the end.
MaxSlots == 6

SlotNumbers ==
    << <<"1", "1">>, <<"4", "2">>, <<"2", "0">>, <<"0", "1", "0">>,
       <<"0", "1", "5">>, <<"7">> >>

SlotKinds == {"number", "empty", "letter"}

Slot(kind, i) ==
    CASE kind = "number" -> SlotNumbers[((i - 1) % Len(SlotNumbers)) + 1]
      [] kind = "empty" -> <<>>
      [] kind = "letter" -> <<"a">>

RECURSIVE Join(_, _, _)
Join(kinds, seps, k) ==
    IF k = 0 THEN <<>>
    ELSE IF k = 1 THEN Slot(kinds[1], 1)
    ELSE Join(kinds, seps, k - 1) \o <<seps[k - 1]>> \o Slot(kinds[k], k)

\* input is one of the texts parsed.
SampleText ==
    \E k \in 1..MaxSlots :
        \E kinds \in [1..k -> SlotKinds], seps \in [1..(k - 1) -> {":", "."}],
           suffix \in {<<>>, <<"a">>} :
            input = Join(kinds, seps, k) \o suffix

ParseTimestamp ==
    /\ ~parsed.done
    /\ parsed' = [done |-> TRUE, ts |-> parse_timestamp(input)]
    /\ UNCHANGED <<engine_time, converted, input>>
    /\ UNCHANGED <<infoVars, openVars, opsVars, chapterVars, sessionVars,
                   dispatchVars>>

TimestampNew ==
    /\ engine_time = I64(FALSE, Zero)
    /\ converted = NotConverted
    /\ input = <<>>
    /\ parsed = NotParsed

UiNew == SessionNew /\ DispatcherNew /\ TimestampNew

----------------------------------------------------------------------------
(* Opening: PlaybackPipeline::open and register_open_bus_watch *)

\* Result<PlaybackPipeline, OpenError>, "Pending" while open() has not returned.
OpenOutcome(tag, plugins, text) == [tag |-> tag, plugins |-> plugins, text |-> text]

Pending == OpenOutcome("Pending", {}, None)

OMsg(kind) ==
    [kind |-> kind, src |-> None, text |-> None, name |-> None, plugin |-> None,
     coll |-> <<>>, scope |-> None, val |-> None, qok |-> FALSE, q |-> 0]

\* Bus messages of the opening phase. An AsyncDone carries the engine's answer
\* to the duration query the handler makes when that message completes the
\* handshake: qok is FALSE when the query fails.
OpenMsgs ==
    { [OMsg("Error") EXCEPT !.src = x[1], !.text = x[2]] :
          x \in {<<"sink", "e1">>, <<"sink", "e2">>, <<"decodebin", "e1">>} }
    \cup { [OMsg("Element") EXCEPT !.name = x[1], !.plugin = x[2]] :
          x \in {<<"missing-plugin", "p1">>, <<"missing-plugin", "p2">>} }
    \cup { [OMsg("StreamCollection") EXCEPT !.coll = c] :
          c \in {<<a1, v1>>, <<a2, t1>>} }
    \cup { OMsg("StreamStart"), OMsg("StreamsSelected") }
    \cup { [OMsg("Tag") EXCEPT !.scope = x[1], !.val = x[2]] :
          x \in {<<"Global", "title">>} }
    \cup { [OMsg("Toc") EXCEPT !.scope = x[1], !.val = x[2]] :
          x \in {<<"Global", "toc1">>} }
    \cup { OMsg("AsyncDone"),
           [OMsg("AsyncDone") EXCEPT !.qok = TRUE, !.q = MaxTs] }

ErrorOutcome_ignoring_plugins(src, missing, text) ==
    IF src = "sink" THEN OpenOutcome("GLSinkError", {}, None)
    ELSE OpenOutcome("Generic", {}, text)

ErrorOutcome_plugins_first(src, missing, text) ==
    IF missing # {} THEN OpenOutcome("MissingPlugins", missing, None)
    ELSE IF src = "sink" THEN OpenOutcome("GLSinkError", {}, None)
    ELSE OpenOutcome("Generic", {}, text)

\* The Error arm of the opening watch.
ErrorOutcome(src, missing, text) ==
    IF src = "sink" THEN OpenOutcome("GLSinkError", {}, None)
    ELSE IF missing # {} THEN OpenOutcome("MissingPlugins", missing, None)
    ELSE OpenOutcome("Generic", {}, text)

AsyncDoneCompletes_always(ss) == TRUE

\* AsyncDone(_) => if streams_selected { .. }
AsyncDoneCompletes(ss) == ss

marks_selected_from_start(kind) == kind \in {"StreamStart", "StreamsSelected"}

\* StreamsSelected(_) => streams_selected = true
marks_selected(kind) == kind = "StreamsSelected"

\* query_duration::<gst::ClockTime>().unwrap_or_else(|| 0.into())
query_duration(qok, q) == IF qok THEN q ELSE 0

scope_is_global_always(scope) == TRUE

\* tags.get_scope() == gst::TagScope::Global, toc.get_scope() == gst::TocScope::Global
scope_is_global(scope) == scope = "Global"

\* Send, with open() registering the operations bus watch whatever it received.
Send_registering_always(outcome) ==
    IF open_st = "awaiting"
    THEN /\ handler_res' = outcome
         /\ open_st' = "returned"
         /\ bus_watch_src_id' = TRUE
    ELSE UNCHANGED <<handler_res, open_st, bus_watch_src_id>>

\* handler_res_tx.send(res): open() receives it while it awaits handler_res_rx
\* and, on Ok, registers the operations bus watch; after open() has returned
\* StateChange the receiver is gone and the value is dropped.
Send(outcome) ==
    IF open_st = "awaiting"
    THEN /\ handler_res' = outcome
         /\ open_st' = "returned"
         /\ bus_watch_src_id' = (outcome.tag = "Ok")
    ELSE UNCHANGED <<handler_res, open_st, bus_watch_src_id>>

\* PlaybackPipeline::open up to handler_res_rx.await.
Open(accept) ==
    /\ open_st = "new"
    /\ open_watch' = TRUE
    /\ IF accept
       THEN /\ open_st' = "awaiting"
            /\ gst_state' = "Paused"
            /\ UNCHANGED handler_res
       ELSE \* pipeline.set_state(gst::State::Paused)?
            /\ open_st' = "returned"
            /\ handler_res' = OpenOutcome("StateChange", {}, None)
            /\ UNCHANGED gst_state
    /\ UNCHANGED <<infoVars, missing_plugins, streams_selected, open_log,
                   bus_watch_src_id, int_msg_rx, media_msg_rx, bus, op, nops,
                   nspont, chapterVars, uiVars, stopVars>>

\* The closure of register_open_bus_watch, run for one bus message. After a
\* refused state request the engine posts nothing but errors.
OpenBusWatch(msg) ==
    /\ open_watch
    /\ Len(open_log) < MaxOpenMsgs
    /\ open_st = "returned" => msg.kind = "Error"
    /\ (msg.kind = "AsyncDone" /\ ~AsyncDoneCompletes(streams_selected)) => ~msg.qok
    /\ open_log' = Append(open_log, msg)
    /\ CASE msg.kind = "Error" ->
              /\ Send(ErrorOutcome(msg.src, missing_plugins, msg.text))
              /\ open_watch' = FALSE
              /\ UNCHANGED <<infoVars, missing_plugins, streams_selected>>
         [] msg.kind = "Element" ->
              /\ missing_plugins' = IF msg.name = "missing-plugin"
                                    THEN missing_plugins \cup {msg.plugin}
                                    ELSE missing_plugins
              /\ UNCHANGED <<infoVars, streams_selected, open_st, handler_res,
                             open_watch, bus_watch_src_id>>
         [] msg.kind = "StreamCollection" ->
              /\ streams' = add_streams(streams, msg.coll)
              /\ UNCHANGED <<duration, tags, toc, missing_plugins,
                             streams_selected, open_st, handler_res, open_watch,
                             bus_watch_src_id>>
         [] marks_selected(msg.kind) ->
              /\ streams_selected' = TRUE
              /\ UNCHANGED <<infoVars, missing_plugins, open_st, handler_res,
                             open_watch, bus_watch_src_id>>
         [] msg.kind = "Tag" ->
              /\ tags' = IF scope_is_global(msg.scope) THEN tags \cup {msg.val}
                         ELSE tags
              /\ UNCHANGED <<streams, duration, toc, missing_plugins,
                             streams_selected, open_st, handler_res, open_watch,
                             bus_watch_src_id>>
         [] msg.kind = "Toc" ->
              /\ toc' = IF toc = None /\ scope_is_global(msg.scope) THEN msg.val
                        ELSE toc
              /\ UNCHANGED <<streams, duration, tags, missing_plugins,
                             streams_selected, open_st, handler_res, open_watch,
                             bus_watch_src_id>>
         [] msg.kind = "AsyncDone" /\ AsyncDoneCompletes(streams_selected) ->
              /\ duration' = query_duration(msg.qok, msg.q)
              /\ Send(OpenOutcome("Ok", {}, None))
              /\ open_watch' = FALSE
              /\ UNCHANGED <<streams, tags, toc, missing_plugins, streams_selected>>
         [] OTHER ->
              UNCHANGED <<infoVars, missing_plugins, streams_selected, open_st,
                          handler_res, open_watch, bus_watch_src_id>>
    /\ UNCHANGED <<int_msg_rx, media_msg_rx, bus, gst_state, op, nops, nspont,
                   chapterVars, uiVars, stopVars>>

\* The state PlaybackPipeline::try_new builds before it calls open().
InitOpen ==
    /\ streams = StreamsDefault
    /\ duration = 0
    /\ tags = {}
    /\ toc = None
    /\ missing_plugins = {}
    /\ streams_selected = FALSE
    /\ open_st = "new"
    /\ handler_res = Pending
    /\ open_watch = FALSE
    /\ open_log = <<>>
    /\ bus_watch_src_id = FALSE
    /\ int_msg_rx = <<>>
    /\ media_msg_rx = <<>>
    /\ bus = <<>>
    /\ gst_state = "Null"
    /\ op = NoOp
    /\ nops = 0
    /\ nspont = 0
    /\ StopNotCalled
    /\ video_sink = FALSE
    /\ ChapterTreeNew
    /\ UiNew

NextOpen ==
    \/ \E accept \in BOOLEAN : Open(accept)
    \/ \E msg \in OpenMsgs : OpenBusWatch(msg)

SpecOpen == InitOpen /\ [][NextOpen]_vars

----------------------------------------------------------------------------
(* The opened controller *)

InitCollections == { <<a1, v1>>, <<a2, a1, t1>>, <<v1>> }

IdLists == UNION { [1..n -> StreamIds] : n \in 0..MaxIds }

\* The selections tried on the controller next to play, pause and seek.
OpIdLists == { <<>>, <<"a1">>, <<"v1", "x1">> }


\* The state PlaybackPipeline::open leaves on success.
Init ==
    /\ streams = add_streams(StreamsDefault, <<a1, v1>>)
    /\ duration = MaxTs
    /\ tags = {}
    /\ toc = None
    /\ missing_plugins = {}
    /\ streams_selected = TRUE
    /\ open_st = "returned"
    /\ handler_res = OpenOutcome("Ok", {}, None)
    /\ open_watch = FALSE
    /\ open_log = <<>>
    /\ bus_watch_src_id = TRUE
    /\ int_msg_rx = <<>>
    /\ media_msg_rx = <<>>
    /\ bus = <<>>
    /\ gst_state = "Paused"
    /\ op = NoOp
    /\ nops = 0
    /\ nspont = 0
    /\ StopNotCalled
    /\ video_sink = TRUE
    /\ ChapterTreeNew
    /\ UiNew

Next ==
    \/ \E accept \in BOOLEAN, async \in BOOLEAN : Pause(accept, async)
    \/ \E accept \in BOOLEAN : Play(accept)
    \/ \E target \in 0..(MaxTs + 1), flags \in SeekFlags, accept \in BOOLEAN :
          Seek(target, flags, accept)
    \/ \E ids \in OpIdLists : SelectStreams(ids)
    \/ AwaitIntMsg
    \/ EngineNotifies
    \/ \E msg \in SpontMsgs : EnginePosts(msg)

Spec == Init /\ [][Next]_vars

----------------------------------------------------------------------------
(* Stream selection on an opened controller *)

InitSelect ==
    /\ \E coll \in InitCollections : streams = add_streams(StreamsDefault, coll)
    /\ duration = MaxTs
    /\ tags = {}
    /\ toc = None
    /\ missing_plugins = {}
    /\ streams_selected = TRUE
    /\ open_st = "returned"
    /\ handler_res = OpenOutcome("Ok", {}, None)
    /\ open_watch = FALSE
    /\ open_log = <<>>
    /\ bus_watch_src_id = TRUE
    /\ int_msg_rx = <<>>
    /\ media_msg_rx = <<>>
    /\ bus = <<>>
    /\ gst_state = "Paused"
    /\ op = NoOp
    /\ nops = 0
    /\ nspont = 0
    /\ StopNotCalled
    /\ video_sink = TRUE
    /\ ChapterTreeNew
    /\ UiNew

NextSelect ==
    \/ nops < MaxSelects /\ \E ids \in IdLists : SelectStreams(ids)
    \/ EnginePosts(Msg("Error", "decodebin", None, 0))

SpecSelect == InitSelect /\ [][NextSelect]_vars

----------------------------------------------------------------------------
(* The chapter navigation index of an opened media *)

InitChapters == Init

NextChapters ==
    \/ \E new_toc \in Tocs : ReplaceWith(new_toc)
    \/ Clear
    \/ Unselect
    \/ \E ts \in TsValues : UpdateTs(ts)
    \/ PickNext
    \/ PickPrevious

SpecChapters == InitChapters /\ [][NextChapters]_vars

----------------------------------------------------------------------------
(* The chapter index over any list of chapters *)

MaxScanChapters == 3

\* Chapters that overlap, touch and leave a gap.
ScanChapters ==
    { ChapterTimestamps(0, 10), ChapterTimestamps(10, 20),
      ChapterTimestamps(20, 30), ChapterTimestamps(0, 30) }

\* Chapters in any order, overlapping or not.
ScanStores == UNION { [1..n -> ScanChapters] : n \in 0..MaxScanChapters }

InitScan == Init

NextScan ==
    \/ /\ last_call = None
       /\ \E chs \in ScanStores :
             ReplaceWith([present |-> TRUE, entries |-> TocOf(chs)])
    \/ Unselect
    \/ \E ts \in TsValues : UpdateTs(ts)

SpecScan == InitScan /\ [][NextScan]_vars

----------------------------------------------------------------------------
(* The dispatcher of UI events next to the callbacks of the main loop *)

InitCallbacks == Init

NextCallbacks ==
    \/ \E kind \in UIEvent : SendEvent(kind)
    \/ \E awaits \in BOOLEAN : TakeEvent(awaits)
    \/ OperationCompletes
    \/ TrackerTick
    \/ \E callback \in InfoCallbacks, found \in BOOLEAN : InfoCallback(callback, found)

SpecCallbacks == InitCallbacks /\ [][NextCallbacks]_vars

----------------------------------------------------------------------------
(* Stopping an opened controller *)

InitStop ==
    /\ streams = add_streams(StreamsDefault, <<a1, v1>>)
    /\ duration = MaxTs
    /\ tags = {}
    /\ toc = None
    /\ missing_plugins = {}
    /\ streams_selected = TRUE
    /\ open_st = "returned"
    /\ handler_res = OpenOutcome("Ok", {}, None)
    /\ open_watch = FALSE
    /\ open_log = <<>>
    /\ bus_watch_src_id = TRUE
    /\ int_msg_rx = <<>>
    /\ media_msg_rx = <<>>
    /\ bus = <<>>
    /\ gst_state = "Paused"
    /\ op = NoOp
    /\ nops = 0
    /\ nspont = 0
    /\ StopNotCalled
    /\ video_sink \in BOOLEAN
    /\ ChapterTreeNew
    /\ UiNew

NextStop ==
    \/ \E async \in BOOLEAN : Pause(TRUE, async)
    \/ Play(TRUE)
    \/ AwaitIntMsg
    \/ EngineNotifies
    \/ \E msg \in SpontMsgs : EnginePosts(msg)
    \/ Stop
    \/ \E accept \in BOOLEAN : StopSetState(accept)
    \/ StopCleanup
    \/ \E msg \in SpontMsgs : BusUnwatched(msg)

SpecStop == InitStop /\ [][NextStop]_vars

----------------------------------------------------------------------------
(* The session of the MainController *)

Responses == {"Ok", "Cancel"}

InitSession == Init

NextSession ==
    \/ \E new_ok \in BOOLEAN : OpenAtStart(new_ok)
    \/ \E response \in Responses, new_ok \in BOOLEAN, accept \in BOOLEAN :
          SelectMedia(response, new_ok, accept)
    \/ \E response \in Responses, new_ok \in BOOLEAN, accept \in BOOLEAN :
          PlayPause(response, new_ok, accept)
    \/ \E position \in 0..1, accept \in BOOLEAN : SessionSeek(position, accept)
    \/ SessionSelectStreams
    \/ \E message \in ContextMessage : ContextSends(message)
    \/ Listener
    \/ \E id \in 1..(MaxOpens + 1) : Tracker(id)

SpecSession == InitSession /\ [][NextSession]_vars

\* The session under the scheduling of glib and of the engine: the listener
\* runs every LISTENER_PERIOD while its source is registered, a scheduled
\* tracker runs every TRACKER_PERIOD, and the AsyncDone the engine posts
\* when the media is prerolled (InitDone) and for a seek reaches the bus
\* watch whenever the watch is there to take it.
FairSession ==
    /\ WF_vars(Listener)
    /\ WF_vars(\E id \in 1..(MaxOpens + 1) : Tracker(id))
    /\ SF_vars(ContextSends("InitDone"))
    /\ SF_vars(ContextSends("AsyncDone"))

SpecSessionLive == InitSession /\ [][NextSession]_vars /\ FairSession

(* The dispatcher of UI events *)

InitDispatch == Init

NextDispatch ==
    \/ \E kind \in UIEvent : SendEvent(kind)
    \/ \E awaits \in BOOLEAN : TakeEvent(awaits)
    \/ OperationCompletes
    \/ StreamSelected
    \/ SelectStreamsTask

SpecDispatch == InitDispatch /\ [][NextDispatch]_vars

\* The conversions of engine times, each applied to one sampled time.
InitTimestamp ==
    /\ streams = add_streams(StreamsDefault, <<a1, v1>>)
    /\ duration = MaxTs
    /\ tags = {}
    /\ toc = None
    /\ missing_plugins = {}
    /\ streams_selected = TRUE
    /\ open_st = "returned"
    /\ handler_res = OpenOutcome("Ok", {}, None)
    /\ open_watch = FALSE
    /\ open_log = <<>>
    /\ bus_watch_src_id = TRUE
    /\ int_msg_rx = <<>>
    /\ media_msg_rx = <<>>
    /\ bus = <<>>
    /\ gst_state = "Paused"
    /\ op = NoOp
    /\ nops = 0
    /\ nspont = 0
    /\ StopNotCalled
    /\ video_sink = TRUE
    /\ ChapterTreeNew
    /\ SessionNew
    /\ DispatcherNew
    /\ engine_time \in EngineTimes
    /\ converted = NotConverted
    /\ input = <<>>
    /\ parsed = NotParsed

NextTimestamp ==
    \/ FromSignedNano
    \/ CurrentTs

SpecTimestamp == InitTimestamp /\ [][NextTimestamp]_vars

\* parse_timestamp, applied to one sampled text.
InitParse ==
    /\ streams = add_streams(StreamsDefault, <<a1, v1>>)
    /\ duration = MaxTs
    /\ tags = {}
    /\ toc = None
    /\ missing_plugins = {}
    /\ streams_selected = TRUE
    /\ open_st = "returned"
    /\ handler_res = OpenOutcome("Ok", {}, None)
    /\ open_watch = FALSE
    /\ open_log = <<>>
    /\ bus_watch_src_id = TRUE
    /\ int_msg_rx = <<>>
    /\ media_msg_rx = <<>>
    /\ bus = <<>>
    /\ gst_state = "Paused"
    /\ op = NoOp
    /\ nops = 0
    /\ nspont = 0
    /\ StopNotCalled
    /\ video_sink = TRUE
    /\ ChapterTreeNew
    /\ SessionNew
    /\ DispatcherNew
    /\ engine_time = I64(FALSE, Zero)
    /\ converted = NotConverted
    /\ SampleText
    /\ parsed = NotParsed

NextParse == ParseTimestamp

SpecParse == InitParse /\ [][NextParse]_vars

\* Tags and tables of contents, during the opening and after it.
InfoMsgs ==
    { [OMsg("Tag") EXCEPT !.scope = x[1], !.val = x[2]] :
          x \in {<<"Global", "title">>, <<"Stream", "codec">>} }
    \cup { [OMsg("Toc") EXCEPT !.scope = x[1], !.val = x[2]] :
          x \in {<<"Global", "toc1">>, <<"Global", "toc2">>,
                 <<"Current", "toc3">>} }
    \cup { OMsg("StreamsSelected"),
           [OMsg("AsyncDone") EXCEPT !.qok = TRUE, !.q = MaxTs],
           [OMsg("Error") EXCEPT !.src = "decodebin", !.text = "e1"] }

\* Tag and Toc messages as the operations bus watch sees them.
LateInfoMsgs ==
    { Msg("Tag", "decodebin", None, 0), Msg("Toc", "decodebin", None, 0) }

InitInfo == InitOpen

NextInfo ==
    \/ \E accept \in BOOLEAN : Open(accept)
    \/ \E msg \in InfoMsgs : OpenBusWatch(msg)
    \/ \E msg \in LateInfoMsgs : EnginePosts(msg)

SpecInfo == InitInfo /\ [][NextInfo]_vars

----------------------------------------------------------------------------
(* The stream inventory, from the opening to the selections *)

InventoryMsgs ==
    { [OMsg("StreamCollection") EXCEPT !.coll = c] :
          c \in {<<a1, v1>>, <<a2, a1, t1>>} }
    \cup { OMsg("StreamsSelected"),
           [OMsg("AsyncDone") EXCEPT !.qok = TRUE, !.q = MaxTs] }

\* Selections of no stream, one stream, two streams of a kind, and selections
\* that meet an unknown id first or after a known one.
InventoryIdLists ==
    { <<>>, <<"a2">>, <<"a1", "a2">>, <<"t1", "v1">>, <<"x1">>, <<"a2", "x1">> }

InitInventory == InitOpen

NextInventory ==
    \/ Open(TRUE)
    \/ \E msg \in InventoryMsgs : OpenBusWatch(msg)
    \/ nops < MaxSelects /\ \E ids \in InventoryIdLists : SelectStreams(ids)

SpecInventory == InitInventory /\ [][NextInventory]_vars

----------------------------------------------------------------------------
(* Claims about the operations *)

Returned(kind) == op.kind = kind /\ op.st = "returned"

ErrorPosted == \E i \in 1..Len(media_msg_rx) : media_msg_rx[i] = "Error"

\* C1: play, pause and seek return Ok only on a notification that the engine
\* emitted for that operation's own request, never on one caused by an
\* earlier operation (stated here for the runs in which the engine reports
\* no error at all).
C1_OwnNotification ==
    \A kind \in {"play", "pause", "seek"} :
        (Returned(kind) /\ op.res = "Ok" /\ ~ErrorPosted) => op.by = op.id

\* C2: play() returns Ok only on a state change of the top-level graph to
\* Playing, pause() only on one to Paused; every other return is
\* StateChangeError.
C2_StateChangedToTarget ==
    /\ Returned("play")  => IF op.res = "Ok" THEN op.new = "Playing"
                            ELSE op.res = "StateChangeError"
    /\ Returned("pause") => IF op.res = "Ok" THEN op.new = "Paused"
                            ELSE op.res = "StateChangeError"

IsCall == nops' = nops + 1

CurIds(s) == <<s.cur_audio_id, s.cur_video_id, s.cur_text_id>>

Known(s, id) == id \in s.audio \cup s.video \cup s.text

HasUnknown(s, ids) == \E i \in 1..Len(ids) : ~Known(s, ids[i])

FirstUnknown(s, ids) ==
    ids[CHOOSE i \in 1..Len(ids) :
            ~Known(s, ids[i]) /\ \A j \in 1..(i - 1) : Known(s, ids[j])]

\* C4: select_streams with a list that contains an unknown id fails with
\* UnknownId(that id) and leaves the current id of every kind unchanged,
\* wherever the unknown id stands in the list.
C4_UnknownIdKeepsSelection ==
    [][ \A ids \in IdLists :
          (SelectStreams(ids) /\ ~HasError(int_msg_rx) /\ HasUnknown(streams, ids))
          => /\ op'.res = "UnknownId"
             /\ op'.id_err = FirstUnknown(streams, ids)
             /\ CurIds(streams') = CurIds(streams) ]_vars

\* C10: when the internal channel holds an Error at the call of play, pause,
\* seek or select_streams, the call returns at once with StateChangeError
\* (play, pause) or Unrecoverable (seek, select_streams): nothing is asked of
\* the engine, the inventory is untouched and no message is awaited.
C10_PurgeErrorFailsFast ==
    [][ (IsCall /\ HasError(int_msg_rx))
        => /\ op'.st = "returned"
           /\ op'.res = IF op'.kind \in {"play", "pause"}
                        THEN "StateChangeError" ELSE "Unrecoverable"
           /\ ~op'.issued
           /\ op'.awaited = 0
           /\ bus' = bus
           /\ gst_state' = gst_state
           /\ streams' = streams ]_vars

C10_Witness ==
    /\ Returned("select_streams")
    /\ op.res = "Unrecoverable"
    /\ ~op.issued
    /\ media_msg_rx # <<>>

\* C11: a call made while the internal channel holds no Error purges it
\* with success, whether it is empty or holds AsyncDone and StateChanged
\* messages: the purge gives what it gives on the empty channel, the channel
\* is empty after the call and the call goes on to its request, so that
\* nothing of what was queued is left to the operation.
C11_PurgeNonErrors ==
    [][ (IsCall /\ ~HasError(int_msg_rx))
        => /\ purge_int_msg(int_msg_rx) = purge_int_msg(<<>>)
           /\ purge_int_msg(int_msg_rx).ok
           /\ int_msg_rx' = <<>>
           /\ op'.issued
           /\ op'.purged = Len(int_msg_rx)
           /\ op'.awaited = 0 ]_vars

C11_Witness ==
    /\ Returned("seek") /\ op.res = "Ok"
    /\ op.purged > 0
    /\ op.by = op.id
    /\ ~ErrorPosted

\* The channels after the operations bus watch has handled msg.
Routed(msg) ==
    /\ int_msg_rx' =
          IF \/ msg.kind = "StateChanged" /\ msg.src = "playback_pipeline"
             \/ msg.kind = "AsyncDone"
             \/ msg.kind = "Error"
          THEN Append(int_msg_rx, msg) ELSE int_msg_rx
    /\ media_msg_rx' =
          IF msg.kind \in {"Error", "Eos"} THEN Append(media_msg_rx, msg.kind)
          ELSE media_msg_rx

\* C17: every message that reaches the bus of an opened controller is routed
\* by its kind, whatever was routed before: a StateChanged of the top-level
\* graph and an AsyncDone to the internal channel only, an Error to both
\* channels, an Eos to the caller-facing channel only, a StateChanged of
\* another element and every other kind to neither.
C17_Routing ==
    [][ /\ EngineNotifies => Routed(Head(bus))
        /\ \A msg \in SpontMsgs : EnginePosts(msg) => Routed(msg) ]_vars

C17_Witness ==
    /\ media_msg_rx = <<"Eos", "Error">>
    /\ Len(int_msg_rx) = 2
    /\ int_msg_rx[1].kind = "Error"
    /\ int_msg_rx[2].kind = "AsyncDone"
    /\ nspont = MaxSpont

Count(log, x) == Cardinality({ i \in 1..Len(log) : log[i] = x })

Precedes(log, x, y) ==
    \A i \in 1..Len(log) : log[i] = y => \E j \in 1..(i - 1) : log[j] = x

\* C18: stop() deregisters the bus watch before it requests the null state
\* and removes the sink element after that request; from the first stop()
\* on, the watch is gone and nothing is routed to the internal or the
\* caller-facing channel; a watch is deregistered once, however many times
\* stop() is called.
C18_StopDeregistersFirst ==
    [][ /\ Precedes(stop_log', "source_remove", "set_state(Null)")
        /\ Precedes(stop_log', "set_state(Null)", "remove(video_sink)")
        /\ Count(stop_log', "source_remove") <= 1
        /\ nstops' > 0 => ~bus_watch_src_id'
        /\ nstops > 0 => UNCHANGED <<int_msg_rx, media_msg_rx>> ]_vars

C18_Witness ==
    /\ nstops = 2 /\ stop_st = "returned"
    /\ stop_log = <<"source_remove", "message", "set_state(Null)",
                    "remove(video_sink)", "set_state(Null)">>
    /\ bus # <<>>

\* C19: select_streams checks every id against the inventory before it
\* sends the selection event: a call with an unknown id sends no event, and
\* a call with known ids only sends the event, updates the selection and
\* returns Ok without awaiting a message.
C19_ValidatesBeforeEvent ==
    [][ \A ids \in IdLists :
          (SelectStreams(ids) /\ ~HasError(int_msg_rx))
          => IF HasUnknown(streams, ids)
             THEN ~op'.issued /\ bus' = bus
             ELSE /\ op'.issued /\ bus' # bus
                  /\ streams' = Streams_select_streams(streams, ids).streams
                  /\ op'.st = "returned" /\ op'.res = "Ok"
                  /\ op'.awaited = 0 ]_vars

Names(ids, coll) == \E i \in 1..Len(ids) : ids[i] \in coll

\* C20: after a successful select_streams(ids), a kind of which ids names no
\* stream has its current id cleared, and its changed flag tells whether an
\* id was selected for that kind before the call.
C20_UnnamedKindCleared ==
    [][ (IsCall /\ op'.kind = "select_streams" /\ op'.res = "Ok")
        => /\ ~Names(op'.ids, streams.audio)
              => /\ streams'.cur_audio_id = None
                 /\ streams'.audio_changed = (streams.cur_audio_id # None)
           /\ ~Names(op'.ids, streams.video)
              => /\ streams'.cur_video_id = None
                 /\ streams'.video_changed = (streams.cur_video_id # None)
           /\ ~Names(op'.ids, streams.text)
              => /\ streams'.cur_text_id = None
                 /\ streams'.text_changed = (streams.cur_text_id # None) ]_vars

C20_Witness ==
    /\ Returned("select_streams") /\ op.res = "Ok" /\ op.ids = <<"a1">>
    /\ nops = 2
    /\ streams.cur_audio_id = "a1" /\ ~streams.audio_changed
    /\ streams.text = {"t1"}
    /\ streams.cur_text_id = None /\ ~streams.text_changed
    /\ streams.cur_video_id = None

----------------------------------------------------------------------------
(* Claims about the chapter navigation index *)

\* The chapters of st that hold ts: start <= ts < end.
InChapter(st, ts) == { i \in 1..Len(st) : st[i].start <= ts /\ ts < st[i].end }

Contiguous(st) == \A i \in 1..(Len(st) - 1) : st[i].end = st[i + 1].start

AfterUpdateTs == last_call = "update_ts"

\* C12: after any sequence of calls that ends with update_ts(ts), with
\* timestamps that increase, decrease or jump, the selection cursor is the
\* one chapter with start <= ts < end, and is None when no chapter holds ts
\* (before the first chapter, in a gap, at or past the end of the last one).
C12_SelectionFollowsTs ==
    AfterUpdateTs =>
        /\ Cardinality(InChapter(store, last_ts)) <= 1
        /\ IF InChapter(store, last_ts) = {} THEN tree_selected = NoIter
           ELSE tree_selected \in InChapter(store, last_ts)

C12_Witness ==
    /\ AfterUpdateTs /\ ~mono
    /\ Len(store) = 2 /\ ~Contiguous(store)
    /\ last_ts = 5
    /\ tree_selected = 1
    /\ status = "ChapterChanged"

C14_EndIsExclusive ==
    AfterUpdateTs =>
        /\ tree_selected # NoIter
           => /\ store[tree_selected].start <= last_ts
              /\ last_ts < store[tree_selected].end
        /\ \A i \in 1..Len(store) :
              store[i].end = last_ts
              => /\ tree_selected # i
                 /\ IF \E j \in 1..Len(store) : store[j].start = last_ts
                    THEN /\ tree_selected # NoIter
                         /\ store[tree_selected].start = last_ts
                    ELSE tree_selected = NoIter

C14_Witness ==
    /\ AfterUpdateTs /\ last_ts = 20
    /\ Len(store) = 2
    /\ store[1] = ChapterTimestamps(10, 20)
    /\ store[2] = ChapterTimestamps(20, 30)
    /\ tree_selected = 2

\* C15: pick_next returns the chapter right after the selected one (nothing
\* after the last) or the first chapter when nothing is selected;
\* pick_previous returns the chapter right before the selected one (nothing
\* before the first) or the last chapter when nothing is selected; neither
\* changes the scan cursor, the selection cursor or the chapters.
C15_PickAdjacent ==
    [][ /\ PickNext =>
            /\ picked' = IF tree_selected # NoIter
                         THEN (IF tree_selected = Len(store) THEN NoIter
                               ELSE tree_selected + 1)
                         ELSE (IF store = <<>> THEN NoIter ELSE 1)
            /\ UNCHANGED <<store, iter, tree_selected>>
        /\ PickPrevious =>
            /\ picked' = IF tree_selected # NoIter
                         THEN (IF tree_selected = 1 THEN NoIter
                               ELSE tree_selected - 1)
                         ELSE (IF store = <<>> THEN NoIter ELSE Len(store))
            /\ UNCHANGED <<store, iter, tree_selected>> ]_vars

C15_Witness ==
    /\ last_call = "pick_previous"
    /\ tree_selected = NoIter
    /\ Len(store) = 3
    /\ picked = 3
    /\ iter = 2

\* The chapters a table of contents gives: its entries that have times.
TimedChapters(new_toc) ==
    LET idx == { i \in 1..Len(new_toc.entries) : new_toc.entries[i].timed }
        RECURSIVE pick(_)
        pick(i) == IF i > Len(new_toc.entries) THEN <<>>
                   ELSE (IF i \in idx THEN <<new_toc.entries[i].ts>> ELSE <<>>)
                        \o pick(i + 1)
    IN  pick(1)

\* C16 as stated: rebuilding the index leaves the chapters of the new table
\* of contents only, and the scan cursor on the first chapter if and only if
\* that chapter starts at zero; no chapter is selected when the first chapter
\* does not start at zero or the list is empty.
C16_RewindOnlyAtZero ==
    [][ last_call' = "replace_with" =>
          /\ store' = TimedChapters(last_toc')
          /\ iter' = IF store' # <<>> /\ store'[1].start = 0 THEN 1 ELSE NoIter
          /\ (store' = <<>> \/ store'[1].start # 0) => tree_selected' = NoIter ]_vars

\* C16 amended: rebuilding the index leaves the chapters of the new table of
\* contents only, the scan cursor on the first chapter whenever there is one
\* and the selection cursor on that chapter if and only if it starts at zero;
\* both cursors are None when the list is empty.
C16_ReplaceRewinds ==
    [][ last_call' = "replace_with" =>
          /\ store' = TimedChapters(last_toc')
          /\ iter' = IF store' # <<>> THEN 1 ELSE NoIter
          /\ tree_selected' = IF store' # <<>> /\ store'[1].start = 0 THEN 1
                              ELSE NoIter ]_vars

C16_Witness ==
    /\ last_call = "replace_with"
    /\ store # <<>> /\ store[1].start # 0
    /\ last_toc.entries[1] = Untimed
    /\ iter = 1
    /\ tree_selected = NoIter


----------------------------------------------------------------------------
(* Claims about the opening handshake *)

LogLen == Len(open_log)

LastMsg == open_log[LogLen]

\* open() was awaiting the handler's result when the last message was handled.
OpenWasPending == handler_res.tag # "StateChange"

KindAt(i, kind) == open_log[i].kind = kind

\* The plugin names the missing-plugin Element messages reported.
ReportedPlugins ==
    { open_log[i].plugin :
        i \in { j \in 1..LogLen : /\ KindAt(j, "Element")
                                  /\ open_log[j].name = "missing-plugin" } }

\* C5: an Error from another element than the sink, received after at least
\* one missing-plugin message, resolves the open to MissingPlugins with
\* exactly the distinct names reported, never to Generic.
C5_MissingPluginsPrecedence ==
    (/\ LogLen > 0 /\ OpenWasPending
     /\ LastMsg.kind = "Error" /\ LastMsg.src # "sink"
     /\ ReportedPlugins # {})
    => handler_res = OpenOutcome("MissingPlugins", ReportedPlugins, None)

C5_Witness ==
    /\ handler_res.tag = "MissingPlugins"
    /\ handler_res.plugins = {"p1", "p2"}
    /\ \E i, j \in 1..LogLen : i < j /\ KindAt(i, "Element") /\ open_log[i] = open_log[j]

\* C6: an Error whose source is named "sink" resolves the open to
\* GLSinkError, whatever its text and whatever plugins were reported missing.
C6_GLSinkDetection ==
    (LogLen > 0 /\ OpenWasPending /\ LastMsg.kind = "Error" /\ LastMsg.src = "sink")
    => handler_res = OpenOutcome("GLSinkError", {}, None)

C6_Witness ==
    /\ handler_res.tag = "GLSinkError"
    /\ LastMsg.text = "e2"
    /\ ReportedPlugins # {}

Recorded(s, stream) ==
    stream.id \in (CASE stream.type_ = "AUDIO" -> s.audio
                     [] stream.type_ = "VIDEO" -> s.video
                     [] stream.type_ = "TEXT"  -> s.text)

SelectedIn(log) == \E i \in 1..Len(log) : log[i].kind = "StreamsSelected"

\* C8: an AsyncDone handled before any StreamsSelected changes nothing (the
\* open stays pending, the watch stays registered, Media Info is untouched),
\* and the message that resolves the open Ok is an AsyncDone handled after a
\* StreamsSelected.
C8_EarlyAsyncDoneIgnored ==
    [][ \A msg \in OpenMsgs : OpenBusWatch(msg) =>
          /\ (msg.kind = "AsyncDone" /\ ~SelectedIn(open_log))
             => /\ handler_res' = handler_res
                /\ open_st' = open_st
                /\ open_watch'
                /\ infoVars' = infoVars
          /\ (handler_res'.tag = "Ok" /\ handler_res.tag # "Ok")
             => (msg.kind = "AsyncDone" /\ SelectedIn(open_log)) ]_vars

C8_Witness ==
    /\ handler_res.tag = "Ok"
    /\ KindAt(1, "AsyncDone")
    /\ KindAt(2, "StreamsSelected")
    /\ LogLen = 3

InOrder(kinds) ==
    \E f \in [1..Len(kinds) -> 1..LogLen] :
        /\ \A n \in 1..Len(kinds) : KindAt(f[n], kinds[n])
        /\ \A n \in 1..(Len(kinds) - 1) : f[n] < f[n + 1]

\* C9 as stated: the open resolves Ok only after a StreamStart, then a
\* StreamsSelected, then an AsyncDone.
C9_StreamStartFirst ==
    handler_res.tag = "Ok" => InOrder(<<"StreamStart", "StreamsSelected", "AsyncDone">>)

\* C9 amended: the handshake has one tracked stage, streams_selected, which
\* is set exactly when a StreamsSelected has been handled; the open resolves
\* Ok only after a StreamsSelected and then an AsyncDone, in that order.
C9_HandshakeOrder ==
    /\ streams_selected = SelectedIn(open_log)
    /\ handler_res.tag = "Ok"
       => /\ streams_selected
          /\ InOrder(<<"StreamsSelected", "AsyncDone">>)

C9_Witness ==
    /\ handler_res.tag = "Ok"
    /\ ~ \E i \in 1..LogLen : KindAt(i, "StreamStart")
    /\ LogLen = 2

----------------------------------------------------------------------------
(* Claims about the session *)

\* The trackers glib has scheduled.
Trackers(m) == { s \in m.sources : s.kind = "tracker" }

\* open_media ran in the step.
OpenRan == mc'.nopen = mc.nopen + 1

\* The step is a play_pause command.
PlayPauseStep ==
    \E response \in Responses, new_ok \in BOOLEAN, accept \in BOOLEAN :
        PlayPause(response, new_ok, accept)

\* C21: open_media tears down the controller the session holds and leaves
\* the state Stopped; once the open has succeeded (InitDone) the state is
\* Paused; when it fails (PlaybackContext::new fails, or FailedToOpenMedia
\* arrives) the state is Stopped, no controller is held and a message
\* shows the error.
C21_OpenMedia ==
    [][ /\ OpenRan =>
            /\ mc.context # NoCtx => mc'.gst[mc.context] \in {"Null", "Dropped"}
            /\ mc'.state = "Stopped"
            /\ mc'.context # mc'.nopen =>
                  mc'.context = NoCtx /\ mc'.message = "Error"
        /\ \A i \in 1..Len(mc'.handled) :
            /\ mc'.handled[i].message = "InitDone" =>
                  mc'.handled[i].to = "Paused"
            /\ mc'.handled[i].message = "FailedToOpenMedia" =>
                  /\ mc'.handled[i].to = "Stopped"
                  /\ mc'.context = NoCtx
                  /\ mc'.message # None ]_vars

\* ControllerState has one EOS, and a seek from it resumes Playing: it is
\* the end of stream of Playing, and no state is the end of stream of Paused.
EndOfStream(prior) == IF prior = "Playing" THEN "EOS" ELSE "EOS of Paused"

\* C22: an end of stream handled in state Playing or Paused leaves the end
\* of stream state of that state and no tracker registered, and no tracker
\* ticks from then until register_tracker schedules one again.
C22_EosHaltsTracker ==
    [][ /\ \A i \in 1..Len(mc'.handled) :
              (/\ mc'.handled[i].message = "Eos"
               /\ mc'.handled[i].from \in {"Playing", "Paused"})
              => /\ mc'.handled[i].to = EndOfStream(mc'.handled[i].from)
                 /\ mc'.tracker_src = NoSrc
        /\ mc'.ticked # NoSrc => ~mc.halted ]_vars

\* C23: play_pause in state Paused leaves Playing after one play on the
\* context, in state Playing it leaves Paused after one pause, and in state
\* Stopped it is a media selection that issues no play and no pause.
C23_PlayPauseToggles ==
    [][ (PlayPauseStep /\ ~mc'.panicked) =>
            /\ mc.state = "Paused" =>
                  /\ mc'.state = "Playing"
                  /\ mc'.issued = << <<mc.context, "play", 0>> >>
            /\ mc.state = "Playing" =>
                  /\ mc'.state = "Paused"
                  /\ mc'.issued = << <<mc.context, "pause", 0>> >>
            /\ mc.state = "Stopped" =>
                  /\ \E response \in Responses, new_ok \in BOOLEAN :
                        mc' = select_media(Entering(mc), response, new_ok, TRUE)
                  /\ \A i \in 1..Len(mc'.issued) :
                        mc'.issued[i][2] \notin {"play", "pause"} ]_vars

C25_SingleTracker ==
    [][ /\ Cardinality(Trackers(mc')) <= 1
        /\ \A s \in Trackers(mc') : s.id = mc'.tracker_src
        /\ Trackers(mc') \ Trackers(mc) # {} => mc.tracker_src = NoSrc
        /\ mc'.ticked # NoSrc => mc'.ticked = mc.tracker_src ]_vars

\* C26: a tracker is scheduled exactly when the state is Playing.
C26_TrackerIffPlaying ==
    ~mc.panicked => (Trackers(mc) # {} <=> mc.state = "Playing")

\* C38: whenever a tick of the position tracker queries the position (the
\* controller is not seeking), the session holds a playback context: no
\* sequence of events, an engine error while playing included, leads to a
\* tick after the context was dropped.
C38_TickHasContext ==
    [][ (mc'.ticked # NoSrc /\ ~mc.seeking) => mc.context # NoCtx ]_vars

\* A seek was accepted by a session that still runs on the same context.
SeekPending == mc.seeking /\ ~mc.panicked /\ mc.context # NoCtx

\* C39: a seek accepted in a state other than Stopped sets the seeking flag,
\* and the flag is cleared in the end, when the AsyncDone of the seek was
\* handled (or the context it was issued on is gone), so that the tracker
\* queries the position again; this holds for the seek to zero that
\* restarts the playback after the end of the stream too.
C39_SeekingIsCleared ==
    /\ [][ \A position \in 0..1 :
             (SessionSeek(position, TRUE) /\ mc.state # "Stopped") => mc'.seeking ]_vars
    /\ SeekPending ~> (~mc.seeking \/ mc.panicked \/ mc.context = NoCtx)

----------------------------------------------------------------------------
(* Claims about the dispatcher of UI events *)

\* C27: no two pipeline operations are in progress at once, in no state
\* and at no point of a step; the events are taken in the order they were
\* sent, and an event is taken only when every event taken before it has
\* been handled to completion, the operation it awaits included.
C27_OneOperationAtATime ==
    /\ Cardinality(dispatcher.in_progress) <= 1
    /\ dispatcher.overlap <= 1
    /\ dispatcher.taken = [i \in 1..Len(dispatcher.taken) |-> i]
    /\ Len(dispatcher.done) <= Len(dispatcher.taken)
    /\ Len(dispatcher.taken) <= Len(dispatcher.done) + 1
    /\ dispatcher.done = SubSeq(dispatcher.taken, 1, Len(dispatcher.done))
    /\ dispatcher.event # NoEvent <=>
          Len(dispatcher.taken) = Len(dispatcher.done) + 1
    /\ dispatcher.event # NoEvent => dispatcher.in_progress = {dispatcher.event}

\* An event waits in the channel and a selection of streams waits to run
\* while handle() awaits the operation of the second event.
C27_Witness ==
    /\ dispatcher.st = "running"
    /\ dispatcher.event.kind \in PipelineEvents
    /\ dispatcher.in_progress = {dispatcher.event}
    /\ Len(dispatcher.done) = 1
    /\ ui_event_receiver # <<>>
    /\ dispatcher.spawned > 0

\* The step is a seek command, or a selection in the stream lists.
SeekStep == \E position \in 0..1, accept \in BOOLEAN : SessionSeek(position, accept)

DelegatedStep == SeekStep \/ SessionSelectStreams

\* C32: a seek or a select_streams that succeeds in state EOS leaves the
\* session Playing or Paused; one that fails leaves it Stopped with no
\* controller (and has not aborted the program); a seek in state Stopped
\* issues nothing and changes neither the state nor the seeking flag.
C32_SeekSelectReconcile ==
    [][ /\ (mc.state = "EOS" /\ DelegatedStep /\ ~mc'.panicked) =>
              mc'.state \in {"Playing", "Paused"}
        /\ (mc.state # "Stopped" /\ DelegatedStep /\ mc'.panicked) =>
              mc'.state = "Stopped" /\ mc'.context = NoCtx
        /\ (mc.state = "Stopped" /\ SeekStep) =>
              /\ mc'.issued = <<>>
              /\ mc'.state = "Stopped"
              /\ mc'.seeking = mc.seeking
              /\ mc'.context = mc.context ]_vars

\* handle() holds the MainController across the operation it awaits.
HeldAcrossAwait == dispatcher.borrowed /\ dispatcher.event # NoEvent

InfoStep ==
    \E callback \in InfoCallbacks, found \in BOOLEAN : InfoCallback(callback, found)

\* C40: while the dispatcher holds the MainController mutably across an
\* operation it awaits (open_media, play_pause, seek, select_media), no
\* other callback borrows it mutably: the tick of the tracker is skipped,
\* and no callback of the info page (previous chapter, step forward, step
\* back, chapter row activated, thumbnail drawn) comes to a second
\* borrow_mut.
C40_NoSecondBorrow ==
    [][ HeldAcrossAwait =>
          /\ dispatcher'.ticked = dispatcher.ticked
          /\ InfoStep => dispatcher'.st # "panicked" ]_vars

----------------------------------------------------------------------------
(* Claims about timestamps *)

\* h, m, s, ms, us and nano put together again, in nanoseconds.
Recomposed(t) ==
    MulAdd(MulAdd(MulAdd(MulAdd(MulAdd(t.h, 60, t.m), 60, t.s),
                         1000, t.ms), 1000, t.us), 1000, t.nano)

\* C28: a Timestamp is never negative: the Timestamp converted from a
\* signed engine time n has the total 0 when n < 0 and n otherwise, its
\* fields h, m, s, ms, us, nano recompose to that total, m and s are below
\* 60 and ms, us, nano below 1000; current_ts gives no Timestamp for a
\* negative position.
C28_NeverNegative ==
    /\ converted.by = "from_signed_nano" =>
          LET t == converted.ts[1]
          IN  /\ t.nano_total =
                    IF engine_time.neg THEN Zero ELSE engine_time.mag
              /\ Recomposed(t) = t.nano_total
              /\ t.m \in 0..59 /\ t.s \in 0..59
              /\ t.ms \in 0..999 /\ t.us \in 0..999 /\ t.nano \in 0..999
    /\ converted.by = "current_ts" =>
          IF engine_time.neg THEN converted.ts = <<>>
          ELSE /\ Len(converted.ts) = 1
               /\ converted.ts[1].nano_total = engine_time.mag
               /\ Recomposed(converted.ts[1]) = engine_time.mag

\* The smallest i64 was converted, to zero.
C28_Witness ==
    /\ converted.by = "from_signed_nano"
    /\ engine_time = I64(TRUE, I64MinMagnitude)
    /\ converted.ts[1].nano_total = Zero

\* The separators of a text and the runs of characters between them.
Separators == {":", "."}

SeparatorsOf(text) == SelectSeq(text, LAMBDA c : c \in Separators)

RECURSIVE RunsOf(_)
RunsOf(text) ==
    IF \A i \in 1..Len(text) : text[i] \notin Separators THEN <<text>>
    ELSE LET i == CHOOSE i \in 1..Len(text) :
                    /\ text[i] \in Separators
                    /\ \A j \in 1..(i - 1) : text[j] \notin Separators
         IN  <<SubSeq(text, 1, i - 1)>> \o RunsOf(SubSeq(text, i + 1, Len(text)))

IsNumber(run) == run # <<>> /\ \A i \in 1..Len(run) : is_digit(run[i])

\* The text is two to five numbers, ":" after the first, ":" or "." after
\* the second and "." after the others.
InFormat(text) ==
    LET runs == RunsOf(text)
        seps == SeparatorsOf(text)
    IN  /\ Len(runs) \in 2..5
        /\ \A i \in 1..Len(runs) : IsNumber(runs[i])
        /\ seps[1] = ":"
        /\ \A i \in 3..Len(seps) : seps[i] = "."

\* The Timestamp the numbers of a text in the format stand for.
ReadAs(text) ==
    LET runs == RunsOf(text)
        seps == SeparatorsOf(text)
        number(i) == IF i <= Len(runs) THEN parse_to(runs[i]) ELSE 0
        fields ==
            IF Len(seps) >= 2 /\ seps[2] = ":"
            THEN [h |-> number(1), m |-> number(2), s |-> number(3),
                  ms |-> number(4), us |-> number(5), nano |-> 0]
            ELSE [h |-> 0, m |-> number(1), s |-> number(2),
                  ms |-> number(3), us |-> number(4), nano |-> number(5)]
    IN  [nano_total |-> nano_total_of(fields), nano |-> fields.nano,
         us |-> fields.us, ms |-> fields.ms, s |-> fields.s, m |-> fields.m,
         h |-> fields.h]

\* A character that is neither a digit nor a separator: a non-digit where a
\* number is required, or a trailing character.
HasLetter(text) ==
    \E i \in 1..Len(text) : ~is_digit(text[i]) /\ text[i] \notin Separators

\* A separator stands where a number is required.
SeparatorForNumber(text) ==
    LET runs == RunsOf(text)
    IN  \E i \in 1..(Len(runs) - 1) : runs[i] = <<>>

\* More separators than h:m:s.ms.us or m:s.ms.us.nano have.
TooManySeparators(text) ==
    LET seps == SeparatorsOf(text)
    IN  \/ Len(seps) > 4
        \/ \E i \in 3..Len(seps) : seps[i] = ":"

\* C29: a text in the format parses to its numbers read as h:m:s.ms.us when
\* ":" follows the second number and as m:s.ms.us.nano with h = 0
\* otherwise, missing trailing numbers being 0 and nano_total the total of
\* the fields; a text with a non-digit where a number is required, with too
\* many separators or with trailing characters is rejected.
C29_ParseTimestamp ==
    parsed.done =>
        /\ InFormat(input) => parsed.ts = <<ReadAs(input)>>
        /\ (\/ HasLetter(input)
            \/ SeparatorForNumber(input)
            \/ TooManySeparators(input)) => parsed.ts = <<>>

----------------------------------------------------------------------------
(* Claims about the events forwarded to the caller *)

\* C30: when the operations bus watch of an opened controller receives a
\* StreamsSelected message, it forwards it to the caller as an event on the
\* caller-facing channel.
C30_StreamsSelectedForwarded ==
    [][(/\ bus # <<>>
        /\ bus' = Tail(bus)
        /\ Head(bus).kind = "StreamsSelected"
        /\ handler_res.tag = "Ok")
       => media_msg_rx' = Append(media_msg_rx, "StreamsSelected")]_vars

\* The moves of the scan cursor update_ts(ts) makes from the state.
ScanOf(ts) ==
    IF tree_selected # NoIter /\ Contains(store[tree_selected], ts) THEN <<>>
    ELSE IF iter = NoIter THEN <<>>
    ELSE scan_moves(store, iter, ts, TRUE, <<>>)

\* C35: update_ts returns on every list of chapters, sorted or not,
\* overlapping or not, and for every timestamp: the scan cursor makes no
\* move forward after a move backward and comes to no chapter twice in one
\* direction, hence makes at most one move per chapter and direction; on a
\* list that is not empty it is left on a chapter of the list, the one its
\* last move reached.
C35_ScanTerminates ==
    [][ last_call' = "update_ts" =>
          LET moves == ScanOf(last_ts')
          IN  /\ Len(moves) <= 2 * Len(store)
              /\ \A i, j \in 1..Len(moves) :
                    /\ (i < j /\ moves[i][1] = "previous") => moves[j][1] = "previous"
                    /\ (i < j /\ moves[i][1] = moves[j][1]) => moves[i][2] # moves[j][2]
              /\ store # <<>> => iter' \in 1..Len(store)
              /\ moves # <<>> => iter' = moves[Len(moves)][2] ]_vars

\* update_ts(15) on an unsorted list with overlapping chapters: the scan
\* came back from the chapter at 20 to the one that ends at 10, where it
\* does not move forward again, and no chapter is selected.
C35_Witness ==
    /\ AfterUpdateTs
    /\ store = <<ChapterTimestamps(0, 10), ChapterTimestamps(20, 30),
                 ChapterTimestamps(0, 10)>>
    /\ last_ts = 15
    /\ tree_selected = NoIter
    /\ iter = 1

----------------------------------------------------------------------------
(* Further claims about the opening *)

\* C34: the open delivers one outcome and keeps it; when a bus message
\* produced the outcome, it is the last message the opening watch handled
\* (an AsyncDone for Ok, an Error otherwise) and the watch is removed; the
\* operations bus watch is registered exactly when open() has returned Ok,
\* and never while the opening watch is.
C34_OneOutcome ==
    [][ /\ handler_res # Pending => handler_res' = handler_res
        /\ (handler_res' = Pending) <=> (open_st' # "returned")
        /\ handler_res'.tag \notin {"Pending", "StateChange"} =>
              /\ ~open_watch'
              /\ open_log' # <<>>
              /\ open_log'[Len(open_log')].kind =
                    IF handler_res'.tag = "Ok" THEN "AsyncDone" ELSE "Error"
        /\ handler_res.tag \notin {"Pending", "StateChange"} =>
              open_log' = open_log
        /\ bus_watch_src_id' <=> (handler_res'.tag = "Ok" /\ open_st' = "returned")
        /\ ~(open_watch' /\ bus_watch_src_id') ]_vars

\* The open resolved Ok on the message that ended the handshake.
C34_Witness ==
    /\ handler_res.tag = "Ok"
    /\ open_st = "returned"
    /\ bus_watch_src_id
    /\ ~open_watch
    /\ Len(open_log) >= 3
    /\ open_log[Len(open_log)].kind = "AsyncDone"

----------------------------------------------------------------------------
(* Claims about Media Info *)

----------------------------------------------------------------------------
(* Claims about the stream inventory *)

SelectStreamsOk ==
    /\ nops' = nops + 1
    /\ op'.kind = "select_streams"
    /\ op'.res = "Ok"

\* C36: after a select_streams(ids) that succeeded, the changed flag of each
\* kind tells whether the current id of the kind differs from the one before
\* the call, also when ids names several streams of one kind.
C36_ChangedIffDiffers ==
    [][ SelectStreamsOk =>
          /\ streams'.audio_changed <=> (streams'.cur_audio_id # streams.cur_audio_id)
          /\ streams'.text_changed <=> (streams'.cur_text_id # streams.cur_text_id)
          /\ streams'.video_changed <=> (streams'.cur_video_id # streams.cur_video_id)
      ]_vars

\* The id of the first stream of the type in the collection of a message.
RECURSIVE first_of(_, _)
first_of(coll, type_) ==
    IF coll = <<>> THEN None
    ELSE IF Head(coll).type_ = type_ THEN Head(coll).id
    ELSE first_of(Tail(coll), type_)

StreamCollectionHandled ==
    /\ Len(open_log') = Len(open_log) + 1
    /\ open_log'[Len(open_log')].kind = "StreamCollection"

\* The current id a StreamCollection message leaves for a kind.
AfterAddition(cur, type_) ==
    IF cur # None THEN cur ELSE first_of(open_log'[Len(open_log')].coll, type_)

\* C37: after any StreamCollection messages and any select_streams calls,
\* successful or failed, the current id of a kind, when set, names a stream
\* of that kind's collection; the first stream added for a kind becomes the
\* kind's current id, and a later addition leaves the current id as it is.
C37_CurrentIdIsPresent ==
    [][ /\ streams'.cur_audio_id # None => streams'.cur_audio_id \in streams'.audio
        /\ streams'.cur_video_id # None => streams'.cur_video_id \in streams'.video
        /\ streams'.cur_text_id # None => streams'.cur_text_id \in streams'.text
        /\ StreamCollectionHandled =>
              /\ streams'.cur_audio_id = AfterAddition(streams.cur_audio_id, "AUDIO")
              /\ streams'.cur_video_id = AfterAddition(streams.cur_video_id, "VIDEO")
              /\ streams'.cur_text_id = AfterAddition(streams.cur_text_id, "TEXT")
      ]_vars

\* Two collections were added, the second one starting with another audio
\* stream, and a selection failed after it had moved the audio selection.
C37_Witness ==
    /\ Len(open_log) = 4
    /\ open_log[1].coll = <<a1, v1>>
    /\ open_log[2].coll = <<a2, a1, t1>>
    /\ op.kind = "select_streams"
    /\ op.res = "UnknownId"
    /\ streams.cur_audio_id = "a2"
    /\ streams.cur_video_id = "v1"

----------------------------------------------------------------------------
(* Further claims about the chapter index *)

\* C33: update_ts reports ChapterChanged only if a chapter was selected
\* before the call or one is selected after it: with no chapter selected
\* before and a timestamp in no chapter it reports ChapterNotChanged.
C33_ChangedNeedsSelection ==
    [][ (/\ last_call' = "update_ts"
         /\ tree_selected = NoIter
         /\ \/ tree_selected' = NoIter
            \/ InChapter(store, last_ts') = {})
        => status' = "ChapterNotChanged" ]_vars

====
